---- MODULE Spec2Model ----
(***************************************************************************)
(* caddy-certstore: certificate resolution from an OS certificate store    *)
(* and the thumbprint-keyed, reference-counted certificate cache.          *)
(*                                                                         *)
(* The native store (tailscale/certstore) is an opaque capability: Open,   *)
(* Store.Identities, Store.Close, Identity.Certificate,                    *)
(* Identity.CertificateChain, Identity.Signer, Identity.Close.  Every      *)
(* handle it hands out is tracked with the number of Close calls it got.   *)
(***************************************************************************)
EXTENDS Integers, Sequences, FiniteSets, TLC

\* ------------------------------------------------------------------ bounds
NumProcs == 2        \* concurrent goroutines calling into the package
MaxCalls == 2        \* calls each goroutine makes
MaxIdentities == 3   \* identities one enumeration of the store returns
MaxOps == 3          \* Provision and Cleanup calls made on one of several transports
MaxSelectorOps == 5  \* Provision and Cleanup calls made on a transport run alone
MaxSelectors == 2    \* certificate selectors of a CertStoreLoader
MaxLoaderOps == 3    \* Provision, LoadCertificates and Cleanup calls on a loader

Procs == 1..NumProcs
Nil == <<>>          \* nil handle, nil error, zero tls.Certificate

\* ------------------------------------------------------- x509 certificates
\* The fields of x509.Certificate the package reads.
CertA ==
  [raw |-> "derA", subjectCN |-> "test.caddycertstore.local",
   issuerCN |-> "test.caddycertstore.local", serial |-> 1001,
   dns |-> <<"test.caddycertstore.local", "localhost">>]
CertB ==
  [raw |-> "derB", subjectCN |-> "other.example.local", issuerCN |-> "Other CA",
   serial |-> 2002, dns |-> <<>>]
Certs == {CertA, CertB}

\* A native identity as the store returns it: its certificate and what its
\* methods answer.  chain: "ok" | "err" | "empty"; signer: "ok" | "err" | "nil".
Ident(c, cerr, ch, sg) == [cert |-> c, certErr |-> cerr, chain |-> ch, signer |-> sg]
IdA == Ident(CertA, FALSE, "ok", "ok")
IdB == Ident(CertB, FALSE, "ok", "ok")
IdUnreadable == Ident(CertB, TRUE, "ok", "ok")
IdAChainErr == Ident(CertA, FALSE, "err", "ok")
IdASignerErr == Ident(CertA, FALSE, "ok", "err")
IdAEmptyChain == Ident(CertA, FALSE, "empty", "ok")
IdANilSigner == Ident(CertA, FALSE, "ok", "nil")
IdentityKinds ==
  {IdA, IdB, IdUnreadable, IdAChainErr, IdASignerErr, IdAEmptyChain, IdANilSigner}

\* ---------------------------------------------------------------- regexp
\* A compiled *regexp.Regexp: its source and the strings of the universe it
\* matches (MatchString is unanchored unless the source anchors it).
Compile(src) ==
  [src |-> src,
   lang |-> CASE src = "^test.caddycertstore.local$" -> {"test.caddycertstore.local"}
              [] src = "test\\..*\\.local" -> {"test.caddycertstore.local"}
              [] src = ".*caddycertstore.*" -> {"test.caddycertstore.local"}
              [] src = "^other" -> {"other.example.local"}
              [] src = "local" ->
                   {"test.caddycertstore.local", "other.example.local", "localhost"}
              [] src = "^1001$" -> {"1001"}
              [] src = "^localhost$" -> {"localhost"}
              [] src = "^Other CA$" -> {"Other CA"}
              [] src = "^$" -> {""}
              [] src \in {"^test", "test+", "test?", "(test)"} ->
                   {"test.caddycertstore.local"}
              [] src = "test|other" -> {"test.caddycertstore.local", "other.example.local"}
              [] src = "[test]" ->
                   {"test.caddycertstore.local", "other.example.local", "Other CA",
                    "localhost"}
              [] OTHER -> {}]
NoPattern == [src |-> "<nil>", lang |-> {}]   \* a nil *regexp.Regexp
MatchString(pattern, s) == s \in pattern.lang

\* big.Int.String(): the decimal digits of a non-negative serial number.
RECURSIVE SerialString(_)
SerialString(n) ==
  LET d == n % 10
      ch == CASE d = 0 -> "0" [] d = 1 -> "1" [] d = 2 -> "2" [] d = 3 -> "3"
              [] d = 4 -> "4" [] d = 5 -> "5" [] d = 6 -> "6" [] d = 7 -> "7"
              [] d = 8 -> "8" [] OTHER -> "9"
  IN IF n < 10 THEN ch ELSE SerialString(n \div 10) \o ch

\* ------------------------------------------------------------- selectors
\* CertSelector (pattern/field version): configuration plus compiled pattern.
Selector(pat, field, loc) ==
  [Pattern |-> pat, Field |-> field, Location |-> loc, pattern |-> Compile(pat)]
Selectors ==
  {Selector("^test.caddycertstore.local$", "", "user"),
   Selector(".*caddycertstore.*", "issuer", "User"),
   Selector("^other", "subject", "system"),
   Selector("nonexistent", "dns_names", "machine")}

\* strings.ToLower on the location strings of the universe.
ToLower(s) ==
  CASE s = "User" -> "user" [] s = "USER" -> "user" [] s = "uSeR" -> "user"
    [] s = "System" -> "system" [] s = "SYSTEM" -> "system"
    [] s = "Machine" -> "machine"
    [] OTHER -> s

\* A mapping that compares the location as written, without lower-casing it.
getStoreLocationCaseSensitive(location) ==
  CASE location = "system" -> "System"
    [] location = "user" -> "User"
    [] OTHER -> "System"

getStoreLocation(location) ==
  CASE ToLower(location) = "system" -> "System"
    [] ToLower(location) = "user" -> "User"
    [] OTHER -> "System"

\* A field selector that takes the last DNS SAN instead of the first.
getFieldSelectorLastSAN(field, cert) ==
  CASE field = "issuer" -> cert.issuerCN
    [] field = "serial" -> SerialString(cert.serial)
    [] field = "dns_names" -> IF Len(cert.dns) = 0 THEN "" ELSE cert.dns[Len(cert.dns)]
    [] OTHER -> cert.subjectCN

getFieldSelector(field, cert) ==
  CASE field = "issuer" -> cert.issuerCN
    [] field = "serial" -> SerialString(cert.serial)
    [] field = "dns_names" -> IF Len(cert.dns) = 0 THEN "" ELSE cert.dns[1]
    [] OTHER -> cert.subjectCN

\* ------------------------------------------------------------- the matcher
\* The loop shared by every version of the matcher, from index i on: an
\* identity whose Certificate() fails is closed and skipped, one that does not
\* satisfy the rule is closed, the first that does ends the loop.  sat[i]: the
\* rule holds of identity i's certificate.  closed: the indices closed, in
\* call order.
RECURSIVE MatchLoopStopsAtUnreadable(_, _, _, _)
MatchLoopStopsAtUnreadable(identities, sat, i, closed) ==
  IF i > Len(identities) THEN [match |-> 0, closed |-> closed]
  ELSE IF identities[i].certErr
    THEN [match |-> 0, closed |-> Append(closed, i)]
  ELSE IF sat[i]
    THEN [match |-> i, closed |-> closed]
  ELSE MatchLoopStopsAtUnreadable(identities, sat, i + 1, Append(closed, i))

RECURSIVE MatchLoopLeavesNonMatching(_, _, _, _)
MatchLoopLeavesNonMatching(identities, sat, i, closed) ==
  IF i > Len(identities) THEN [match |-> 0, closed |-> closed]
  ELSE IF identities[i].certErr
    THEN MatchLoopLeavesNonMatching(identities, sat, i + 1, Append(closed, i))
  ELSE IF sat[i]
    THEN [match |-> i, closed |-> closed]
  ELSE MatchLoopLeavesNonMatching(identities, sat, i + 1, closed)

RECURSIVE MatchLoop(_, _, _, _)
MatchLoop(identities, sat, i, closed) ==
  IF i > Len(identities) THEN [match |-> 0, closed |-> closed]
  ELSE IF identities[i].certErr
    THEN MatchLoop(identities, sat, i + 1, Append(closed, i))
  ELSE IF sat[i]
    THEN [match |-> i, closed |-> closed]
  ELSE MatchLoop(identities, sat, i + 1, Append(closed, i))

\* findMatchingIdentity(identities, pattern, field): match is the index of the
\* returned identity (0: nil), err the error (Nil: none).
findMatchingIdentity(identities, pattern, field) ==
  IF pattern = NoPattern
  THEN [match |-> 0, closed |-> <<>>, err |-> <<"pattern is required">>]
  ELSE LET sat == [i \in 1..Len(identities) |->
                     MatchString(pattern, getFieldSelector(field, identities[i].cert))]
           r == MatchLoop(identities, sat, 1, <<>>)
       IN [match |-> r.match, closed |-> r.closed,
           err |-> IF r.match = 0
                   THEN <<"no identity found matching pattern '", pattern.src,
                          "' in field '", field, "'">>
                   ELSE Nil]

\* The name/issuer version of the matcher.
\* findMatchingIdentityByField: exact comparison of selector(cert) with
\* targetValue; selector is the function from certificates to the field.
findMatchingIdentityByField(identities, targetValue, selector, fieldName) ==
  LET sat == [i \in 1..Len(identities) |-> selector[identities[i].cert] = targetValue]
      r == MatchLoop(identities, sat, 1, <<>>)
  IN [match |-> r.match, closed |-> r.closed,
      err |-> IF r.match = 0
              THEN <<"no identity found with ", fieldName, " '", targetValue, "'">>
              ELSE Nil]

\* findMatchingIdentityByPattern: re.MatchString(selector(cert)).
findMatchingIdentityByPattern(identities, re, selector, fieldName) ==
  LET sat == [i \in 1..Len(identities) |-> MatchString(re, selector[identities[i].cert])]
      r == MatchLoop(identities, sat, 1, <<>>)
  IN [match |-> r.match, closed |-> r.closed,
      err |-> IF r.match = 0
              THEN <<"no identity found with ", fieldName, " '", re.src, "'">>
              ELSE Nil]

\* A matcher that looks at the compiled pattern before the issuer.
findMatchingIdentityPatternFirst(identities, issuer, commonName, pattern) ==
  CASE pattern # NoPattern ->
         findMatchingIdentityByPattern(identities, pattern, [c \in Certs |-> c.subjectCN], "CN")
    [] pattern = NoPattern /\ issuer # "" ->
         findMatchingIdentityByField(identities, issuer, [c \in Certs |-> c.issuerCN], "Issuer")
    [] OTHER ->
         findMatchingIdentityByField(identities, commonName, [c \in Certs |-> c.subjectCN], "CN")

\* findMatchingIdentity(identities, issuer, commonName, pattern): the issuer
\* when it is set, else the compiled pattern when there is one, else the
\* common name.
findMatchingIdentityByName(identities, issuer, commonName, pattern) ==
  CASE issuer # "" ->
         findMatchingIdentityByField(identities, issuer, [c \in Certs |-> c.issuerCN], "Issuer")
    [] issuer = "" /\ pattern # NoPattern ->
         findMatchingIdentityByPattern(identities, pattern, [c \in Certs |-> c.subjectCN], "CN")
    [] OTHER ->
         findMatchingIdentityByField(identities, commonName, [c \in Certs |-> c.subjectCN], "CN")

\* ------------------------------------------------------------- the builder
CertificateChain(id) == IF id.chain = "ok" THEN <<id.cert>> ELSE <<>>

RECURSIVE serializeCertificateChain(_)
serializeCertificateChain(chain) ==
  IF chain = <<>> THEN <<>>
  ELSE <<Head(chain).raw>> \o serializeCertificateChain(Tail(chain))

\* The zero tls.Certificate; PrivateKey Nil is a nil crypto.Signer.
ZeroCert == [Leaf |-> Nil, Certificate |-> <<>>, PrivateKey |-> Nil]

\* A builder that closes its identity before it returns an error.
buildTLSCertificateClosesOnError(id) ==
  IF id.chain = "err"
  THEN [outcome |-> "err", cert |-> ZeroCert, err |-> <<"chain unavailable">>, closes |-> 1]
  ELSE IF id.signer = "err"
  THEN [outcome |-> "err", cert |-> ZeroCert, err |-> <<"signer unavailable">>, closes |-> 1]
  ELSE IF CertificateChain(id) = <<>>
  THEN [outcome |-> "panic", cert |-> ZeroCert, err |-> Nil, closes |-> 0]
  ELSE [outcome |-> "ok",
        cert |-> [Leaf |-> CertificateChain(id)[1],
                  Certificate |-> serializeCertificateChain(CertificateChain(id)),
                  PrivateKey |-> IF id.signer = "ok" THEN <<"signer">> ELSE Nil],
        err |-> Nil, closes |-> 0]

\* buildTLSCertificate(identity): outcome "ok", "err" (an error is returned)
\* or "panic" (certChain[0] on an empty chain: index out of range); closes:
\* the Close calls it makes on the identity (it has none).
buildTLSCertificate(id) ==
  IF id.chain = "err"
  THEN [outcome |-> "err", cert |-> ZeroCert, err |-> <<"chain unavailable">>, closes |-> 0]
  ELSE IF id.signer = "err"
  THEN [outcome |-> "err", cert |-> ZeroCert, err |-> <<"signer unavailable">>, closes |-> 0]
  ELSE IF CertificateChain(id) = <<>>
  THEN [outcome |-> "panic", cert |-> ZeroCert, err |-> Nil, closes |-> 0]
  ELSE [outcome |-> "ok",
        cert |-> [Leaf |-> CertificateChain(id)[1],
                  Certificate |-> serializeCertificateChain(CertificateChain(id)),
                  PrivateKey |-> IF id.signer = "ok" THEN <<"signer">> ELSE Nil],
        err |-> Nil, closes |-> 0]

isValidCertificate(cert) == Len(cert.Certificate) # 0 /\ cert.PrivateKey # Nil

\* makeCacheKey: the hex SHA-256 of the leaf's raw DER bytes.
makeCacheKey(cert) == <<"sha256", cert.raw>>

\* ------------------------------------------------------------------ state
Keys == {makeCacheKey(c) : c \in Certs} \cup {<<"sha256", "unknown">>}

\* The selectors of the concurrent runs: two rules that find CertA, one that
\* finds CertB (or nothing, when the store holds no CertB).
CacheSelectors == {cs \in Selectors : cs.Pattern # "nonexistent"}

\* What Store.Identities() may return to a goroutine of the concurrent runs.
StoreViews == {<<IdA>>, <<IdB, IdA>>, <<IdB, IdAChainErr>>}

VARIABLES
  pc,          \* pc[p]: where goroutine p is in its current call
  loc,         \* loc[p]: the local variables of p's current call
  ret,         \* ret[p]: what p's last finished call returned
  calls,       \* calls[p]: calls p has started
  certCache,   \* the cache table: cacheKey -> cachedCert
  cacheMutex,  \* the set of goroutines holding cacheMutex ({} or one)
  stores,      \* native store handles: handle -> [location, closes, matched,
               \* inserted, session]; session: the Close calls of the store
               \* session that opened it, in call order (0: the store's own)
  idents,      \* native identity handles: handle -> [kind, closes]
  crashed,     \* a goroutine panicked: the process is gone
  gets,        \* gets[k]: getCachedCertificate calls that returned key k
  rels,        \* rels[k]: releaseCachedCertificate(k) calls that returned
  prefixOK,    \* prefixOK[k]: no release of k was made with rels[k] >= gets[k]
  loads,       \* loads[r]: successful getCachedCertificate calls whose own
               \* resolution found the leaf certificate r
  held,        \* held[p]: the certificates getCachedCertificate returned to
               \* p that p has not called releaseCachedCertificate for
  paired,      \* paired[p]: p never called releaseCachedCertificate(k)
               \* without holding a certificate of key k
  transports,  \* transports[p]: the HTTPTransport goroutine p provisions and
               \* cleans up
  loader       \* the CertStoreLoader the host provisions, loads from, cleans up

vars ==
  <<pc, loc, ret, calls, certCache, cacheMutex, stores, idents, crashed,
    gets, rels, prefixOK, loads, held, paired, transports, loader>>

IdleLoc ==
  [cs |-> Nil, store |-> Nil, identity |-> Nil, cert |-> ZeroCert, cacheKey |-> Nil]
NoRet == [op |-> "none", ok |-> FALSE, cert |-> ZeroCert, key |-> Nil, err |-> Nil]

\* An HTTPTransport as the host constructs it from a configuration whose
\* client_certificate is cc (Nil: absent).  op: the method in progress;
\* result: what the last finished method returned ("none": nothing yet,
\* Nil: a nil error); method: the last method called; ops: the methods called;
\* budget: the methods the host calls on it; cleaned: the Cleanup calls
\* finished since the last successful Provision; provisioned: the last
\* Provision succeeded with a client certificate; resolves: the loadCertificate
\* calls of its selector that succeeded, by the key they returned.
NewTransport(cc) ==
  [ClientCert |-> cc, Certificates |-> <<>>, op |-> "none", result |-> <<"none">>,
   method |-> "none", ops |-> 0, budget |-> MaxOps, cleaned |-> 0,
   provisioned |-> FALSE, resolves |-> [k \in Keys |-> 0]]

\* A CertStoreLoader as the host constructs it from a configuration whose
\* certificates are the selectors cfg.  op: the method in progress; next: the
\* selector its loop is at; result: what the last finished method returned
\* ("none": nothing yet, Nil: a nil error); certs: the list LoadCertificates
\* builds and returns; method: the last method called; called: the methods
\* called so far, in call order; ops: the methods
\* called; opened: the store sessions started; log: the Close calls that
\* selector.cleanup() made in the last method, in call order.
NewLoader(cfg) ==
  [Certificates |-> cfg, op |-> "none", next |-> 0, result |-> <<"none">>,
   certs |-> <<>>, method |-> "none", called |-> <<>>, ops |-> 0, opened |-> 0,
   log |-> <<>>]

InitState(ts, l) ==
  /\ pc = [p \in Procs |-> "idle"]
  /\ loc = [p \in Procs |-> IdleLoc]
  /\ ret = [p \in Procs |-> NoRet]
  /\ calls = [p \in Procs |-> 0]
  /\ certCache = <<>>
  /\ cacheMutex = {}
  /\ stores = <<>>
  /\ idents = <<>>
  /\ crashed = FALSE
  /\ gets = [k \in Keys |-> 0]
  /\ rels = [k \in Keys |-> 0]
  /\ prefixOK = [k \in Keys |-> TRUE]
  /\ loads = [c \in Certs |-> 0]
  /\ held = [p \in Procs |-> <<>>]
  /\ paired = [p \in Procs |-> TRUE]
  /\ transports = ts
  /\ loader = l

\* The transports ts, and a loader without selectors.
InitWith(ts) == InitState(ts, NewLoader(<<>>))

\* No transport is configured with a client certificate.
Init == InitWith([p \in Procs |-> NewTransport(Nil)])

\* ----------------------------------------------------------- native calls
StoreClose(ss, h) == [ss EXCEPT ![h].closes = @ + 1]
IdentityClose(ii, h) == [ii EXCEPT ![h].closes = @ + 1]

IsOpenStore(h) == h \in DOMAIN stores /\ stores[h].closes = 0
IsOpenIdentity(h) == h \in DOMAIN idents /\ idents[h].closes = 0

\* p's call returns r: its locals die with the frame; the receiver cs is the
\* caller's selector and outlives the call.
Return(p, r) ==
  /\ pc' = [pc EXCEPT ![p] = "idle"]
  /\ loc' = [loc EXCEPT ![p] = [IdleLoc EXCEPT !.cs = loc[p].cs]]
  /\ ret' = [ret EXCEPT ![p] = r]

GetErr(e) == [op |-> "get", ok |-> FALSE, cert |-> ZeroCert, key |-> Nil, err |-> e]
GetOk(c, k) == [op |-> "get", ok |-> TRUE, cert |-> c, key |-> k, err |-> Nil]
RelDone(k) == [op |-> "release", ok |-> TRUE, cert |-> ZeroCert, key |-> k, err |-> Nil]

\* ------------------------------------------ loadCertificateWithResources
Hist == <<gets, rels, prefixOK, loads, held, paired>>

\* The caller p of a getCachedCertificate that returns cert holds it from
\* then on.
Holds(p, cert) == held' = [held EXCEPT ![p] = Append(@, cert)]

\* The held certificates hs without the first one of key k.
RECURSIVE Unhold(_, _)
Unhold(hs, k) ==
  IF hs = <<>> THEN hs
  ELSE IF makeCacheKey(Head(hs).Leaf) = k THEN Tail(hs)
  ELSE <<Head(hs)>> \o Unhold(Tail(hs), k)

StoreHandle(p) == <<p, calls[p]>>
IdentityHandle(p, i) == <<p, calls[p], i>>

\* getCachedCertificate taking the lock before it loads.
CallGetLockFirst(p, cs) ==
  /\ ~crashed /\ pc[p] = "idle" /\ calls[p] < MaxCalls /\ cacheMutex = {}
  /\ cacheMutex' = {p}
  /\ calls' = [calls EXCEPT ![p] = @ + 1]
  /\ pc' = [pc EXCEPT ![p] = "load"]
  /\ loc' = [loc EXCEPT ![p] = [IdleLoc EXCEPT !.cs = cs]]
  /\ UNCHANGED <<loader, transports, ret, certCache, stores, idents, crashed, Hist>>

\* The entry into cs.getCachedCertificate(): a new frame.
EnterGet(p, cs) ==
  /\ calls' = [calls EXCEPT ![p] = @ + 1]
  /\ pc' = [pc EXCEPT ![p] = "load"]
  /\ loc' = [loc EXCEPT ![p] = [IdleLoc EXCEPT !.cs = cs]]
  /\ UNCHANGED <<ret, certCache, cacheMutex, stores, idents, crashed, Hist, loader>>

\* A goroutine calls cs.getCachedCertificate().
CallGet(p, cs) ==
  /\ ~crashed /\ pc[p] = "idle" /\ calls[p] < MaxCalls
  /\ EnterGet(p, cs)
  /\ UNCHANGED transports

\* loadCertificateWithResources against a store that answers `w`:
\*   w.open: certstore.Open succeeds; w.enum: store.Identities() succeeds;
\*   w.view: the identities it returns.
\* A selector of the name/issuer version calls the name/issuer matcher.
\* The result: outcome "ok" | "err" | "panic"; the certificate and error
\* returned; match, the index of the identity handed back (0: nil); opened,
\* whether a store handle was opened; storeClosed, whether store.Close() was
\* called; closed, the Close calls made, in call order: the index of the
\* identity closed, 0 for store.Close().
loadCertificateWithResources(cs, w) ==
  IF ~w.open
  THEN [outcome |-> "err", cert |-> ZeroCert, err |-> <<"store unavailable">>, match |-> 0,
        opened |-> FALSE, enumerated |-> <<>>, storeClosed |-> FALSE, closed |-> <<>>]
  ELSE IF ~w.enum
  THEN [outcome |-> "err", cert |-> ZeroCert, err |-> <<"enumeration failed">>, match |-> 0,
        opened |-> TRUE, enumerated |-> <<>>, storeClosed |-> TRUE, closed |-> <<0>>]
  ELSE LET m == IF "Name" \in DOMAIN cs
                THEN findMatchingIdentityByName(w.view, cs.Issuer, cs.Name, cs.pattern)
                ELSE findMatchingIdentity(w.view, cs.pattern, cs.Field)
       IN IF m.err # Nil
          THEN [outcome |-> "err", cert |-> ZeroCert,
                err |-> m.err \o <<" in ", cs.Location, " store">>, match |-> 0,
                opened |-> TRUE, enumerated |-> w.view, storeClosed |-> TRUE,
                closed |-> Append(m.closed, 0)]
          ELSE LET b == buildTLSCertificate(w.view[m.match])
                   built == m.closed \o [j \in 1..b.closes |-> m.match]
               IN CASE b.outcome = "err" ->
                         [outcome |-> "err", cert |-> ZeroCert, err |-> b.err, match |-> 0,
                          opened |-> TRUE, enumerated |-> w.view, storeClosed |-> TRUE,
                          closed |-> built \o <<m.match, 0>>]
                    [] b.outcome = "panic" ->
                         [outcome |-> "panic", cert |-> ZeroCert, err |-> Nil, match |-> 0,
                          opened |-> TRUE, enumerated |-> w.view, storeClosed |-> FALSE,
                          closed |-> built]
                    [] OTHER ->
                         [outcome |-> "ok", cert |-> b.cert, err |-> Nil, match |-> m.match,
                          opened |-> TRUE, enumerated |-> w.view, storeClosed |-> FALSE,
                          closed |-> built]

\* The signer identity.Signer() returns works through the native identity it
\* came from: the certificate built from identity handle h carries a private
\* key that is usable for as long as h is open.
BindSigner(cert, h) ==
  [cert EXCEPT !.PrivateKey = IF @ = Nil THEN Nil ELSE <<"signer", h>>]

\* The number of times index i occurs in the sequence of closed indices.
NumCloses(closed, i) == Cardinality({j \in 1..Len(closed) : closed[j] = i})

Worlds(views) == [open : BOOLEAN, enum : BOOLEAN, view : views]

\* The first half of getCachedCertificate, before the lock: the call of
\* loadCertificateWithResources, the early return on its error, makeCacheKey.
Load(p, views) ==
  /\ ~crashed /\ pc[p] = "load"
  /\ \E w \in Worlds(views) :
     \E r \in {loadCertificateWithResources(loc[p].cs, w)} :
       LET n == Len(r.enumerated)
       IN /\ stores' = IF r.opened
                        THEN (StoreHandle(p) :>
                                [location |-> getStoreLocation(loc[p].cs.Location),
                                 closes |-> IF r.storeClosed THEN 1 ELSE 0,
                                 session |-> r.closed,
                                 matched |-> r.match, inserted |-> FALSE]) @@ stores
                        ELSE stores
          /\ idents' = [h \in {IdentityHandle(p, i) : i \in 1..n} |->
                          [kind |-> r.enumerated[h[3]],
                           closes |-> NumCloses(r.closed, h[3])]] @@ idents
          /\ CASE r.outcome = "err" ->
                    /\ Return(p, GetErr(r.err))
                    /\ UNCHANGED crashed
               [] r.outcome = "panic" ->
                    /\ crashed' = TRUE
                    /\ pc' = [pc EXCEPT ![p] = "panicked"]
                    /\ UNCHANGED <<loc, ret>>
               [] OTHER ->
                    /\ loc' = [loc EXCEPT ![p].cert = BindSigner(r.cert, IdentityHandle(p, r.match)),
                                           ![p].store = StoreHandle(p),
                                           ![p].identity = IdentityHandle(p, r.match),
                                           ![p].cacheKey = makeCacheKey(r.cert.Leaf)]
                    /\ pc' = [pc EXCEPT ![p] = "lock"]
                    /\ UNCHANGED <<ret, crashed>>
  /\ UNCHANGED <<loader, transports, calls, certCache, cacheMutex, Hist>>

\* --------------------------------------------------- getCachedCertificate
\* An entry made without its cacheKey field.
NewCachedCertWithoutKey(cert, identity, store, cacheKey) ==
  [cert |-> cert, identity |-> identity, store |-> store, refCount |-> 1,
   cacheKey |-> Nil]

\* cachedCert{cert, identity, store, refCount: 1, cacheKey}
NewCachedCert(cert, identity, store, cacheKey) ==
  [cert |-> cert, identity |-> identity, store |-> store, refCount |-> 1,
   cacheKey |-> cacheKey]

\* A hit that forgets the increment.
HitRefCountForgotten(n) == n

\* atomic.AddInt32(&cached.refCount, 1)
HitRefCount(n) == n + 1

\* A lookup that never finds the entry: every resolve inserts its candidate.
LockNeverHits(p) ==
  /\ ~crashed /\ pc[p] = "lock" /\ cacheMutex = {}
  /\ cacheMutex' = {p}
  /\ pc' = [pc EXCEPT ![p] = "miss_insert"]
  /\ UNCHANGED <<loader, transports, loc, ret, calls, certCache, stores, idents, crashed, Hist>>

\* cacheMutex.Lock(), then the lookup certCache[cacheKey].
Lock(p) ==
  /\ ~crashed /\ pc[p] = "lock" /\ cacheMutex = {}
  /\ cacheMutex' = {p}
  /\ pc' = [pc EXCEPT ![p] = IF loc[p].cacheKey \in DOMAIN certCache
                             THEN "hit_close_identity" ELSE "miss_insert"]
  /\ UNCHANGED <<loader, transports, loc, ret, calls, certCache, stores, idents, crashed, Hist>>

\* Cache hit: identity.Close() of the newly loaded candidate.
HitCloseIdentity(p) ==
  /\ ~crashed /\ pc[p] = "hit_close_identity"
  /\ idents' = IdentityClose(idents, loc[p].identity)
  /\ pc' = [pc EXCEPT ![p] = "hit_close_store"]
  /\ UNCHANGED <<loader, transports, loc, ret, calls, certCache, cacheMutex, stores, crashed, Hist>>

\* A hit that leaves the candidate's store open.
HitCloseStoreSkipped(p) ==
  /\ ~crashed /\ pc[p] = "hit_close_store"
  /\ pc' = [pc EXCEPT ![p] = "hit_return"]
  /\ UNCHANGED <<loader, transports, loc, ret, calls, certCache, cacheMutex, stores, idents,
                 crashed, Hist>>

\* A hit that closes the store of the resident entry instead of the
\* candidate's.
HitCloseStoreOfEntry(p) ==
  /\ ~crashed /\ pc[p] = "hit_close_store"
  /\ stores' = StoreClose(stores, certCache[loc[p].cacheKey].store)
  /\ pc' = [pc EXCEPT ![p] = "hit_return"]
  /\ UNCHANGED <<loader, transports, loc, ret, calls, certCache, cacheMutex, idents, crashed, Hist>>

\* Cache hit: store.Close() of the newly loaded candidate.
HitCloseStore(p) ==
  /\ ~crashed /\ pc[p] = "hit_close_store"
  /\ stores' = StoreClose(stores, loc[p].store)
  /\ pc' = [pc EXCEPT ![p] = "hit_return"]
  /\ UNCHANGED <<loader, transports, loc, ret, calls, certCache, cacheMutex, idents, crashed, Hist>>

\* A hit that returns the certificate of the candidate it has just closed.
HitReturnCandidate(p) ==
  /\ ~crashed /\ pc[p] = "hit_return"
  /\ LET k == loc[p].cacheKey
     IN /\ certCache' = [certCache EXCEPT ![k].refCount = HitRefCount(@)]
        /\ Return(p, GetOk(loc[p].cert, k))
        /\ gets' = [gets EXCEPT ![k] = @ + 1]
        /\ loads' = [loads EXCEPT ![loc[p].cert.Leaf] = @ + 1]
        /\ Holds(p, ret'[p].cert)
  /\ cacheMutex' = {}
  /\ UNCHANGED <<loader, transports, calls, stores, idents, crashed, rels, prefixOK, paired>>

\* A hit that returns without the deferred Unlock.
HitReturnKeepsLock(p) ==
  /\ ~crashed /\ pc[p] = "hit_return"
  /\ LET k == loc[p].cacheKey
     IN /\ certCache' = [certCache EXCEPT ![k].refCount = HitRefCount(@)]
        /\ Return(p, GetOk(certCache[k].cert, k))
        /\ gets' = [gets EXCEPT ![k] = @ + 1]
        /\ loads' = [loads EXCEPT ![loc[p].cert.Leaf] = @ + 1]
        /\ Holds(p, ret'[p].cert)
  /\ UNCHANGED <<loader, transports, calls, cacheMutex, stores, idents, crashed, rels, prefixOK, paired>>

\* Cache hit: the count is incremented, the cached certificate returned and
\* the deferred Unlock runs.
HitReturn(p) ==
  /\ ~crashed /\ pc[p] = "hit_return"
  /\ LET k == loc[p].cacheKey
     IN /\ certCache' = [certCache EXCEPT ![k].refCount = HitRefCount(@)]
        /\ Return(p, GetOk(certCache[k].cert, k))
        /\ gets' = [gets EXCEPT ![k] = @ + 1]
        /\ loads' = [loads EXCEPT ![loc[p].cert.Leaf] = @ + 1]
        /\ Holds(p, ret'[p].cert)
  /\ cacheMutex' = {}
  /\ UNCHANGED <<loader, transports, calls, stores, idents, crashed, rels, prefixOK, paired>>

\* Cache miss: the candidate becomes the entry, with count 1.
MissInsert(p) ==
  /\ ~crashed /\ pc[p] = "miss_insert"
  /\ LET k == loc[p].cacheKey
     IN /\ certCache' = (k :> NewCachedCert(loc[p].cert, loc[p].identity, loc[p].store, k))
                          @@ certCache
        /\ stores' = [stores EXCEPT ![loc[p].store].inserted = TRUE]
        /\ Return(p, GetOk(loc[p].cert, k))
        /\ gets' = [gets EXCEPT ![k] = @ + 1]
        /\ loads' = [loads EXCEPT ![loc[p].cert.Leaf] = @ + 1]
        /\ Holds(p, ret'[p].cert)
  /\ cacheMutex' = {}
  /\ UNCHANGED <<loader, transports, calls, idents, crashed, rels, prefixOK, paired>>

\* ----------------------------------------------- releaseCachedCertificate
\* A release that takes two references at once.
ReleaseCountTwice(n) == n - 2

\* atomic.AddInt32(&cached.refCount, -1)
ReleaseCount(n) == n - 1

\* The entry into releaseCachedCertificate(k): a new frame.
EnterRelease(p, k) ==
  /\ calls' = [calls EXCEPT ![p] = @ + 1]
  /\ pc' = [pc EXCEPT ![p] = "rel_lock"]
  /\ loc' = [loc EXCEPT ![p] = [IdleLoc EXCEPT !.cacheKey = k]]
  /\ held' = [held EXCEPT ![p] = Unhold(@, k)]
  /\ paired' = [paired EXCEPT ![p] = @ /\ Unhold(held[p], k) # held[p]]
  /\ UNCHANGED <<ret, certCache, cacheMutex, stores, idents, crashed, gets, rels,
                 prefixOK, loads, loader>>

\* A goroutine calls releaseCachedCertificate(k).
CallRelease(p, k) ==
  /\ ~crashed /\ pc[p] = "idle" /\ calls[p] < MaxCalls
  /\ EnterRelease(p, k)
  /\ UNCHANGED transports

\* An absent key dereferenced as if it were there: a nil pointer panic.
RelAbsentPanics(p, k) ==
  /\ crashed' = TRUE
  /\ pc' = [pc EXCEPT ![p] = "panicked"]
  /\ UNCHANGED <<loc, ret, rels, certCache, cacheMutex>>

\* if !exists { return }: nothing is touched and the deferred Unlock runs.
RelAbsent(p, k) ==
  /\ Return(p, RelDone(k))
  /\ rels' = [rels EXCEPT ![k] = @ + 1]
  /\ UNCHANGED <<certCache, cacheMutex, crashed>>

\* A release that unlocks after the decrement and tears down unlocked.
RelPresentUnlocksEarly(p, k) ==
  /\ certCache' = [certCache EXCEPT ![k].refCount = ReleaseCount(@)]
  /\ IF ReleaseCount(certCache[k].refCount) <= 0
     THEN /\ cacheMutex' = {}
          /\ pc' = [pc EXCEPT ![p] = "rel_close_identity"]
          /\ UNCHANGED <<loc, ret, rels>>
     ELSE /\ Return(p, RelDone(k))
          /\ rels' = [rels EXCEPT ![k] = @ + 1]
          /\ UNCHANGED cacheMutex
  /\ UNCHANGED crashed

\* The decrement: a count that stays positive returns, otherwise the lock is
\* kept for the teardown.
RelPresent(p, k) ==
  /\ certCache' = [certCache EXCEPT ![k].refCount = ReleaseCount(@)]
  /\ IF ReleaseCount(certCache[k].refCount) <= 0
     THEN /\ cacheMutex' = {p}
          /\ pc' = [pc EXCEPT ![p] = "rel_close_identity"]
          /\ UNCHANGED <<loc, ret, rels>>
     ELSE /\ Return(p, RelDone(k))
          /\ rels' = [rels EXCEPT ![k] = @ + 1]
          /\ UNCHANGED cacheMutex
  /\ UNCHANGED crashed

\* cacheMutex.Lock(), then the lookup certCache[cacheKey].
RelLock(p) ==
  /\ ~crashed /\ pc[p] = "rel_lock" /\ cacheMutex = {}
  /\ LET k == loc[p].cacheKey
     IN /\ prefixOK' = [prefixOK EXCEPT ![k] = @ /\ rels[k] < gets[k]]
        /\ IF k \notin DOMAIN certCache THEN RelAbsent(p, k) ELSE RelPresent(p, k)
  /\ UNCHANGED <<loader, transports, calls, stores, idents, gets, loads, held, paired>>

\* Teardown: cached.identity.Close() when the identity is not nil.
RelCloseIdentity(p) ==
  /\ ~crashed /\ pc[p] = "rel_close_identity"
  /\ idents' = IF certCache[loc[p].cacheKey].identity # Nil
                THEN IdentityClose(idents, certCache[loc[p].cacheKey].identity)
                ELSE idents
  /\ pc' = [pc EXCEPT ![p] = "rel_close_store"]
  /\ UNCHANGED <<loader, transports, loc, ret, calls, certCache, cacheMutex, stores, crashed, Hist>>

\* Teardown: cached.store.Close() when the store is not nil.
RelCloseStore(p) ==
  /\ ~crashed /\ pc[p] = "rel_close_store"
  /\ stores' = IF certCache[loc[p].cacheKey].store # Nil
                THEN StoreClose(stores, certCache[loc[p].cacheKey].store)
                ELSE stores
  /\ pc' = [pc EXCEPT ![p] = "rel_delete"]
  /\ UNCHANGED <<loader, transports, loc, ret, calls, certCache, cacheMutex, idents, crashed, Hist>>

\* A teardown that leaves the entry in the table.
RelDeleteKeepsEntry(p) ==
  /\ ~crashed /\ pc[p] = "rel_delete"
  /\ Return(p, RelDone(loc[p].cacheKey))
  /\ rels' = [rels EXCEPT ![loc[p].cacheKey] = @ + 1]
  /\ cacheMutex' = {}
  /\ UNCHANGED <<loader, transports, calls, certCache, stores, idents, crashed, gets, prefixOK,
                 loads, held, paired>>

\* A teardown that empties the whole table.
RelDeleteClearsTable(p) ==
  /\ ~crashed /\ pc[p] = "rel_delete"
  /\ certCache' = <<>>
  /\ Return(p, RelDone(loc[p].cacheKey))
  /\ rels' = [rels EXCEPT ![loc[p].cacheKey] = @ + 1]
  /\ cacheMutex' = {}
  /\ UNCHANGED <<loader, transports, calls, stores, idents, crashed, gets, prefixOK, loads,
                 held, paired>>

\* Teardown: delete(certCache, cacheKey); the deferred Unlock runs.
RelDelete(p) ==
  /\ ~crashed /\ pc[p] = "rel_delete"
  /\ LET k == loc[p].cacheKey
     IN /\ certCache' = [x \in DOMAIN certCache \ {k} |-> certCache[x]]
        /\ Return(p, RelDone(k))
        /\ rels' = [rels EXCEPT ![k] = @ + 1]
  /\ cacheMutex' = {}
  /\ UNCHANGED <<loader, transports, calls, stores, idents, crashed, gets, prefixOK, loads, held, paired>>

\* ------------------------------------------------------- the concurrent runs
\* Goroutines call getCachedCertificate on any selector and
\* releaseCachedCertificate on any key, in any interleaving.
Next ==
  \E p \in Procs :
    \/ \E cs \in CacheSelectors : CallGet(p, cs)
    \/ Load(p, StoreViews)
    \/ Lock(p)
    \/ HitCloseIdentity(p)
    \/ HitCloseStore(p)
    \/ HitReturn(p)
    \/ MissInsert(p)
    \/ \E k \in Keys : CallRelease(p, k)
    \/ RelLock(p)
    \/ RelCloseIdentity(p)
    \/ RelCloseStore(p)
    \/ RelDelete(p)

Spec == Init /\ [][Next]_vars

\* A step inside goroutine p's current call: the native calls of the
\* resolution return, the lock is granted when it is free, and the code
\* between two lock operations runs on.
Step(p) ==
  \/ Load(p, StoreViews)
  \/ Lock(p)
  \/ HitCloseIdentity(p)
  \/ HitCloseStore(p)
  \/ HitReturn(p)
  \/ MissInsert(p)
  \/ RelLock(p)
  \/ RelCloseIdentity(p)
  \/ RelCloseStore(p)
  \/ RelDelete(p)

\* The concurrent runs in which a goroutine that can take a step of its call
\* eventually takes one; whether and when a goroutine makes its next call is
\* left open.
SpecProgress == Init /\ [][Next]_vars /\ \A p \in Procs : WF_vars(Step(p))

\* ---------------------------------------------------- one resolution alone
\* A single goroutine makes one getCachedCertificate call, with any selector
\* (one whose pattern was never compiled included) against every store
\* content of up to MaxIdentities identities.
AllViews == UNION {[1..n -> IdentityKinds] : n \in 0..MaxIdentities}
\* The location strings a configuration may carry: the two known values in
\* several letter cases, the empty string, and values that are not known.
Locations ==
  {"user", "User", "USER", "uSeR", "system", "System", "SYSTEM", "machine", "Machine",
   "", "invalid", "users"}
LocationSelectors == {Selector("local", "", l) : l \in Locations}

\* Selectors of the name/issuer version: an exact name, an issuer, a name
\* compiled to a pattern, as Provision hands them to loadCertificate; and
\* CertSelector values with both an issuer and a name, with and without a
\* compiled pattern, and a name that matches as a pattern only.
SessionNameSelectors ==
  {[Name |-> "other.example.local", Issuer |-> "", Location |-> "user",
    pattern |-> NoPattern, cacheKey |-> Nil],
   [Name |-> "", Issuer |-> "Other CA", Location |-> "system",
    pattern |-> NoPattern, cacheKey |-> Nil],
   [Name |-> "^other", Issuer |-> "", Location |-> "user",
    pattern |-> Compile("^other"), cacheKey |-> Nil],
   [Name |-> "^test", Issuer |-> "Other CA", Location |-> "user",
    pattern |-> Compile("^test"), cacheKey |-> Nil],
   [Name |-> "test.caddycertstore.local", Issuer |-> "Other CA", Location |-> "user",
    pattern |-> NoPattern, cacheKey |-> Nil],
   [Name |-> "local", Issuer |-> "", Location |-> "user",
    pattern |-> Compile("local"), cacheKey |-> Nil]}
\* Selectors of the pattern/field version for each field value: the issuer,
\* the serial number, the DNS names (first SAN, second SAN, no SAN), and
\* values that are not the name of a field.
FieldSelectors ==
  {Selector("^Other CA$", "issuer", "user"),
   Selector("^1001$", "serial", "user"),
   Selector("^test.caddycertstore.local$", "dns_names", "user"),
   Selector("^localhost$", "dns_names", "user"),
   Selector("^$", "dns_names", "user"),
   Selector("^other", "unknown", "user"),
   Selector("^1001$", "Serial", "user"),
   Selector("^Other CA$", "", "user")}

SessionSelectors ==
  Selectors \cup {[Pattern |-> "", Field |-> "", Location |-> "", pattern |-> NoPattern]}
            \cup SessionNameSelectors \cup LocationSelectors \cup FieldSelectors
SessionProc == CHOOSE p \in Procs : \A q \in Procs : p <= q

SessionCall(cs) == calls[SessionProc] = 0 /\ CallGet(SessionProc, cs)

NextSession ==
  \/ \E cs \in SessionSelectors : SessionCall(cs)
  \/ Load(SessionProc, AllViews)
  \/ Lock(SessionProc)
  \/ MissInsert(SessionProc)

SpecSession == Init /\ [][NextSession]_vars

\* ------------------------------------------------------------ HTTPTransport
\* CertSelector (name/issuer version) as unmarshalled from the configuration:
\* the runtime fields pattern and cacheKey are not set.
NameSelector(name, issuer, location) ==
  [Name |-> name, Issuer |-> issuer, Location |-> location, pattern |-> NoPattern,
   cacheKey |-> Nil]

\* The characters of the names of the universe, in order (a string that is
\* not listed has none: the empty string).
Chars(s) ==
  CASE s = "test.caddycertstore.local" ->
         <<"t", "e", "s", "t", ".", "c", "a", "d", "d", "y", "c", "e",
           "r", "t", "s", "t", "o", "r", "e", ".", "l", "o", "c", "a", "l">>
    [] s = "^test.caddycertstore.local$" ->
         <<"^", "t", "e", "s", "t", ".", "c", "a", "d", "d", "y", "c", "e",
           "r", "t", "s", "t", "o", "r", "e", ".", "l", "o", "c", "a", "l", "$">>
    [] s = ".*caddycertstore.*" ->
         <<".", "*", "c", "a", "d", "d", "y", "c", "e",
           "r", "t", "s", "t", "o", "r", "e", ".", "*">>
    [] s = "nonexistent.local" ->
         <<"n", "o", "n", "e", "x", "i", "s", "t",
           "e", "n", "t", ".", "l", "o", "c", "a", "l">>
    [] s = "example.com" -> <<"e", "x", "a", "m", "p", "l", "e", ".", "c", "o", "m">>
    [] s = "sub.example.com" ->
         <<"s", "u", "b", ".", "e", "x", "a",
           "m", "p", "l", "e", ".", "c", "o", "m">>
    [] s = "*.example.com" -> <<"*", ".", "e", "x", "a", "m", "p", "l", "e", ".", "c", "o", "m">>
    [] s = "test+" -> <<"t", "e", "s", "t", "+">>
    [] s = "test?" -> <<"t", "e", "s", "t", "?">>
    [] s = "^test" -> <<"^", "t", "e", "s", "t">>
    [] s = "test$" -> <<"t", "e", "s", "t", "$">>
    [] s = "(test)" -> <<"(", "t", "e", "s", "t", ")">>
    [] s = "[test]" -> <<"[", "t", "e", "s", "t", "]">>
    [] s = "{test}" -> <<"{", "t", "e", "s", "t", "}">>
    [] s = "test|other" -> <<"t", "e", "s", "t", "|", "o", "t", "h", "e", "r">>
    [] s = "test\\d" -> <<"t", "e", "s", "t", "\\", "d">>
    [] s = "test\\.com" -> <<"t", "e", "s", "t", "\\", ".", "c", "o", "m">>
    [] s = "a)" -> <<"a", ")">>
    [] s = "a]" -> <<"a", "]">>
    [] s = "a}" -> <<"a", "}">>
    [] OTHER -> <<>>

\* regexChars: * + ? ^ $ ( ) [ ] { } | \ (the dot is not one of them).
regexChars == {"*", "+", "?", "^", "$", "(", ")", "[", "]", "{", "}", "|", "\\"}

\* A detection that counts the dot as a metacharacter.
isRegexPatternWithDot(s) ==
  \E i \in 1..Len(Chars(s)) : Chars(s)[i] \in regexChars \cup {"."}

\* isRegexPattern: some character of s is one of regexChars.
isRegexPattern(s) == \E i \in 1..Len(Chars(s)) : Chars(s)[i] \in regexChars

\* regexp.Compile fails on these sources (a repetition operator without an
\* argument, an unmatched closing parenthesis).
CompileError(src) == src \in {"*.example.com", "a)"}

\* client_certificate as configured: absent, an exact name, a name that is a
\* pattern, neither name nor issuer.
TransportConfigs ==
  {Nil,
   NameSelector("test.caddycertstore.local", "", "user"),
   NameSelector(".*caddycertstore.*", "", "system"),
   NameSelector("", "", "user")}

\* What Store.Identities() returns to a provisioning transport.
TransportViews == {<<IdB, IdA>>}

CacheVars ==
  <<pc, loc, ret, calls, certCache, cacheMutex, stores, idents, crashed, Hist, loader>>

\* Provision whose loadCertificate answers from the selector's stored key
\* without going through getCachedCertificate again.
ProvisionReusesKey(p) ==
  /\ ~crashed /\ pc[p] = "idle"
  /\ transports[p].op = "none" /\ transports[p].ops < transports[p].budget
  /\ LET cc == transports[p].ClientCert
     IN IF cc = Nil \/ (cc.Name # "") = (cc.Issuer # "")
        THEN /\ transports' = [transports EXCEPT ![p].ops = @ + 1, ![p].method = "Provision",
                                                 ![p].result = IF cc = Nil THEN Nil
                                                               ELSE <<"invalid">>]
             /\ UNCHANGED CacheVars
        ELSE IF cc.cacheKey # Nil
        THEN /\ transports' = [transports EXCEPT ![p].ops = @ + 1, ![p].method = "Provision",
                                                 ![p].result = Nil, ![p].cleaned = 0,
                                                 ![p].resolves[cc.cacheKey] = @ + 1]
             /\ UNCHANGED CacheVars
        ELSE /\ transports' =
                  [transports EXCEPT
                     ![p].ops = @ + 1, ![p].method = "Provision", ![p].op = "provision",
                     ![p].ClientCert = IF isRegexPattern(cc.Name)
                                       THEN [cc EXCEPT !.pattern = Compile(cc.Name)] ELSE cc]
             /\ EnterGet(p, IF isRegexPattern(cc.Name)
                            THEN [cc EXCEPT !.pattern = Compile(cc.Name)] ELSE cc)

\* h.Provision(ctx), up to its call of h.ClientCert.loadCertificate().  The
\* embedded transport provisions without error and the names of the universe
\* hold no placeholder, so ReplaceKnown leaves them as they are; every pattern
\* of the universe compiles.
Provision(p) ==
  /\ ~crashed /\ pc[p] = "idle"
  /\ transports[p].op = "none" /\ transports[p].ops < transports[p].budget
  /\ LET cc == transports[p].ClientCert
     IN IF cc = Nil
        THEN /\ transports' = [transports EXCEPT ![p].ops = @ + 1, ![p].method = "Provision", ![p].result = Nil]
             /\ UNCHANGED CacheVars
        ELSE IF (cc.Name # "") = (cc.Issuer # "")
        THEN /\ transports' =
                  [transports EXCEPT
                     ![p].ops = @ + 1, ![p].method = "Provision",
                     ![p].result = <<"client_certificate must set 'name' property">>]
             /\ UNCHANGED CacheVars
        ELSE IF isRegexPattern(cc.Name) /\ cc.Name # "" /\ CompileError(cc.Name)
        THEN /\ transports' =
                  [transports EXCEPT
                     ![p].ops = @ + 1, ![p].method = "Provision",
                     ![p].result = <<"invalid regex pattern '", cc.Name, "': ",
                                     "error parsing regexp">>]
             /\ UNCHANGED CacheVars
        ELSE LET cs == IF isRegexPattern(cc.Name) /\ cc.Name # ""
                       THEN [cc EXCEPT !.pattern = Compile(cc.Name)]
                       ELSE cc
             IN /\ transports' = [transports EXCEPT ![p].ops = @ + 1, ![p].method = "Provision",
                                                     ![p].op = "provision",
                                                     ![p].ClientCert = cs]
                /\ EnterGet(p, cs)

\* loadCertificate storing the returned key whether or not the call failed.
ProvisionReturnStoresKeyOnError(p) ==
  /\ ~crashed /\ pc[p] = "idle" /\ transports[p].op = "provision"
  /\ transports' =
       [transports EXCEPT ![p].op = "none",
                          ![p].result = IF ret[p].ok THEN Nil ELSE ret[p].err,
                          ![p].ClientCert.cacheKey = ret[p].key,
                          ![p].Certificates = IF ret[p].ok THEN <<ret[p].cert>> ELSE @,
                          ![p].provisioned = @ \/ ret[p].ok,
                          ![p].cleaned = IF ret[p].ok THEN 0 ELSE @,
                          ![p].resolves = IF ret[p].ok
                                          THEN [@ EXCEPT ![ret[p].key] = @ + 1]
                                          ELSE @]
  /\ UNCHANGED CacheVars

\* loadCertificate's tail (cs.cacheKey = cacheKey on success) and the rest of
\* Provision: the error, or the certificate installed in TLSClientConfig.
ProvisionReturn(p) ==
  /\ ~crashed /\ pc[p] = "idle" /\ transports[p].op = "provision"
  /\ LET cc == transports[p].ClientCert
     IN transports' =
          IF ret[p].ok
          THEN [transports EXCEPT ![p].op = "none", ![p].result = Nil,
                                  ![p].ClientCert.cacheKey = ret[p].key,
                                  ![p].Certificates = <<ret[p].cert>>,
                                  ![p].provisioned = TRUE, ![p].cleaned = 0,
                                  ![p].resolves[ret[p].key] = @ + 1]
          ELSE [transports EXCEPT
                  ![p].op = "none",
                  ![p].result = <<"no client certificate found in: ", cc.Location,
                                  " with common name: ", cc.Name>>]
  /\ UNCHANGED CacheVars

\* Cleanup that releases whatever key a client certificate selector holds,
\* the empty one included.
CleanupReleasesEmptyKey(p) ==
  /\ ~crashed /\ pc[p] = "idle"
  /\ transports[p].op = "none" /\ transports[p].ops < transports[p].budget
  /\ LET cc == transports[p].ClientCert
     IN IF cc # Nil
        THEN /\ transports' = [transports EXCEPT ![p].ops = @ + 1, ![p].method = "Cleanup",
                                                 ![p].op = "cleanup"]
             /\ EnterRelease(p, cc.cacheKey)
        ELSE /\ transports' =
                  [transports EXCEPT ![p].ops = @ + 1, ![p].method = "Cleanup",
                                     ![p].result = Nil]
             /\ UNCHANGED CacheVars

\* h.Cleanup(): releaseCachedCertificate(h.ClientCert.cacheKey) when there is
\* a client certificate with a key; the key stays where it is.
Cleanup(p) ==
  /\ ~crashed /\ pc[p] = "idle"
  /\ transports[p].op = "none" /\ transports[p].ops < transports[p].budget
  /\ LET cc == transports[p].ClientCert
     IN IF cc # Nil /\ cc.cacheKey # Nil
        THEN /\ transports' = [transports EXCEPT ![p].ops = @ + 1, ![p].method = "Cleanup", ![p].op = "cleanup"]
             /\ EnterRelease(p, cc.cacheKey)
        ELSE /\ transports' =
                  [transports EXCEPT ![p].ops = @ + 1, ![p].method = "Cleanup", ![p].result = Nil,
                                     ![p].cleaned = IF transports[p].provisioned
                                                    THEN @ + 1 ELSE @]
             /\ UNCHANGED CacheVars

\* The rest of Cleanup after the release: the embedded transport's Cleanup,
\* which returns nil.
CleanupReturn(p) ==
  /\ ~crashed /\ pc[p] = "idle" /\ transports[p].op = "cleanup"
  /\ transports' = [transports EXCEPT ![p].op = "none", ![p].result = Nil,
                                      ![p].cleaned = @ + 1]
  /\ UNCHANGED CacheVars

\* Each goroutine provisions and cleans up its own transport, in any order
\* and any interleaving with the others.
InitTransport ==
  \E ts \in [Procs -> {NewTransport(cc) : cc \in TransportConfigs}] : InitWith(ts)

NextTransport ==
  \E p \in Procs :
    \/ Provision(p)
    \/ ProvisionReturn(p)
    \/ Cleanup(p)
    \/ CleanupReturn(p)
    \/ Load(p, TransportViews)
    \/ Lock(p)
    \/ HitCloseIdentity(p)
    \/ HitCloseStore(p)
    \/ HitReturn(p)
    \/ MissInsert(p)
    \/ RelLock(p)
    \/ RelCloseIdentity(p)
    \/ RelCloseStore(p)
    \/ RelDelete(p)

SpecTransport == InitTransport /\ [][NextTransport]_vars

\* One transport alone: the host provisions and cleans up a single transport
\* up to MaxSelectorOps times, so that its selector resolves repeatedly.
\* Names with and without metacharacters, one for each character of
\* regexChars, and names with a dot next to one.
RegexTestNames ==
  {"example.com", "sub.example.com", "*.example.com", "test+", "test?", "^test", "test$",
   "(test)", "[test]", "{test}", "test|other", "test\\d", "test\\.com", "a)", "a]", "a}"}

\* client_certificate of a transport run alone: the configurations above, and
\* an issuer that is found, a name and an issuer that are not, both set.
SelectorConfigs ==
  TransportConfigs \cup
    {NameSelector("", "Other CA", "user"),
     NameSelector("nonexistent.local", "", "user"),
     NameSelector("", "Nonexistent CA", "system"),
     NameSelector("test.caddycertstore.local", "Other CA", "user")}
    \cup {NameSelector(n, "", "user") : n \in RegexTestNames}

InitSelector ==
  \E cc \in SelectorConfigs :
    InitWith([p \in Procs |->
                IF p = SessionProc
                THEN [NewTransport(cc) EXCEPT !.budget = MaxSelectorOps]
                ELSE [NewTransport(Nil) EXCEPT !.budget = 0]])

\* What Store.Identities() returns to the transport run alone: the matching
\* identity may be one whose Signer() returns a nil signer and a nil error.
SelectorViews == {<<IdB, IdA>>, <<IdANilSigner, IdB>>}

NextSelector ==
  \E p \in Procs :
    \/ Provision(p)
    \/ ProvisionReturn(p)
    \/ Cleanup(p)
    \/ CleanupReturn(p)
    \/ Load(p, SelectorViews)
    \/ Lock(p)
    \/ HitCloseIdentity(p)
    \/ HitCloseStore(p)
    \/ HitReturn(p)
    \/ MissInsert(p)
    \/ RelLock(p)
    \/ RelCloseIdentity(p)
    \/ RelCloseStore(p)
    \/ RelDelete(p)

SpecSelector == InitSelector /\ [][NextSelector]_vars

\* ---------------------------------------------------------- CertStoreLoader
\* repl.ReplaceKnown(s, ""): the placeholders of the environment are replaced
\* by their values, every other string is left as it is.
ReplaceKnown(s) ==
  CASE s = "{env.TEST_CERT_NAME}" -> "test.caddycertstore.local"
    [] s = "{env.ENVIRONMENT}" -> "test"
    [] OTHER -> s

\* A replaceTags that returns the replaced tags in reverse order.
replaceTagsReversed(tags) ==
  [i \in 1..Len(tags) |-> ReplaceKnown(tags[Len(tags) + 1 - i])]

\* replaceTags(repl, tags)
replaceTags(tags) ==
  IF Len(tags) = 0 THEN tags ELSE [i \in 1..Len(tags) |-> ReplaceKnown(tags[i])]

\* CertificateSelector as unmarshalled: the runtime fields store and identity
\* are nil.
CertificateSelector(name, issuer, location, tags) ==
  [Name |-> name, Location |-> location, Issuer |-> issuer, Tags |-> tags,
   store |-> Nil, identity |-> Nil]

\* The selectors a loader is configured with: a name that is found, an issuer
\* that is found, neither name nor issuer, a name given by a placeholder, a
\* name that is not found.
LoaderSelectors ==
  {CertificateSelector("test.caddycertstore.local", "", "user",
                       <<"production", "{env.ENVIRONMENT}">>),
   CertificateSelector("", "Other CA", "system", <<>>),
   CertificateSelector("", "", "system", <<"b", "a">>),
   CertificateSelector("{env.TEST_CERT_NAME}", "", "user", <<"b", "a">>),
   CertificateSelector("nonexistent.local", "", "user", <<>>)}
LoaderConfigs == UNION {[1..n -> LoaderSelectors] : n \in 0..MaxSelectors}

\* What Store.Identities() returns to the loader.
LoaderViews == {<<IdB, IdA>>, <<IdANilSigner, IdB>>}

\* Native handles of the loader's n-th store session.
LoaderStore(n) == <<0, n>>
LoaderIdentity(n, i) == <<0, n, i>>

\* What the loader's methods leave alone.
LoaderFrame ==
  UNCHANGED <<pc, loc, ret, calls, certCache, cacheMutex, Hist, transports>>

\* The loop of Provision from index i on: the first selector with neither
\* name nor issuer ends it with an error; a selector that passes is replaced
\* by a new CertificateSelector holding the replaced fields.
RECURSIVE ProvisionLoop(_, _)
ProvisionLoop(sels, i) ==
  IF i > Len(sels) THEN [sels |-> sels, err |-> Nil]
  ELSE IF sels[i].Name = "" /\ sels[i].Issuer = ""
    THEN [sels |-> sels,
          err |-> <<"certificate selector at index ", SerialString(i - 1),
                    " must have either 'name' or 'issuer' set">>]
  ELSE ProvisionLoop(
         [sels EXCEPT ![i] = [Name |-> ReplaceKnown(sels[i].Name),
                              Location |-> ReplaceKnown(sels[i].Location),
                              Issuer |-> ReplaceKnown(sels[i].Issuer),
                              Tags |-> replaceTags(sels[i].Tags),
                              store |-> Nil, identity |-> Nil]],
         i + 1)

\* csl.Provision(ctx)
CertStoreLoaderProvision ==
  /\ ~crashed /\ loader.op = "none" /\ loader.ops < MaxLoaderOps
  /\ LET r == ProvisionLoop(loader.Certificates, 1)
     IN loader' = [loader EXCEPT !.Certificates = r.sels, !.result = r.err,
                                 !.method = "Provision", !.ops = @ + 1, !.log = <<>>,
                                 !.called = Append(@, "Provision")]
  /\ LoaderFrame
  /\ UNCHANGED <<stores, idents, crashed>>

\* A cleanup() that closes its handles and keeps them stored.
cleanupKeepsHandles(acc, i) ==
  LET sel == acc.sels[i]
      i1 == IF sel.identity # Nil THEN IdentityClose(acc.idents, sel.identity)
            ELSE acc.idents
      l1 == IF sel.identity # Nil THEN Append(acc.log, <<"identity", sel.identity>>)
            ELSE acc.log
      s1 == IF sel.store # Nil THEN StoreClose(acc.stores, sel.store) ELSE acc.stores
      l2 == IF sel.store # Nil THEN Append(l1, <<"store", sel.store>>) ELSE l1
  IN [acc EXCEPT !.idents = i1, !.stores = s1, !.log = l2]

\* selector.cleanup() of selector i, on the selectors, handles and log of acc:
\* a non-nil identity is closed and set to nil, then a non-nil store.
cleanup(acc, i) ==
  LET sel == acc.sels[i]
      i1 == IF sel.identity # Nil THEN IdentityClose(acc.idents, sel.identity)
            ELSE acc.idents
      l1 == IF sel.identity # Nil THEN Append(acc.log, <<"identity", sel.identity>>)
            ELSE acc.log
      s1 == IF sel.store # Nil THEN StoreClose(acc.stores, sel.store) ELSE acc.stores
      l2 == IF sel.store # Nil THEN Append(l1, <<"store", sel.store>>) ELSE l1
  IN [acc EXCEPT !.sels[i].identity = Nil, !.sels[i].store = Nil,
                 !.idents = i1, !.stores = s1, !.log = l2]

\* What selector.cleanup() works on.
LoaderAcc ==
  [sels |-> loader.Certificates, stores |-> stores, idents |-> idents, log |-> loader.log]

\* loadCertificate(selector) of the loader: the store session of a selector
\* with a name or an issuer and no compiled pattern.
loadCertificate(sel, w) ==
  loadCertificateWithResources(
    [Name |-> sel.Name, Issuer |-> sel.Issuer, Location |-> sel.Location,
     pattern |-> NoPattern, cacheKey |-> Nil], w)

\* LoadCertificates returns: the list and a nil error, or a nil list and e.
LoadReturn(l, certs, e) ==
  [l EXCEPT !.op = "none", !.next = 0, !.result = e, !.certs = certs]

\* csl.LoadCertificates() is called: the empty list is made; without
\* selectors it is returned at once.
LoadCertificates ==
  /\ ~crashed /\ loader.op = "none" /\ loader.ops < MaxLoaderOps
  /\ LET l == [loader EXCEPT !.method = "LoadCertificates", !.ops = @ + 1,
                             !.log = <<>>, !.certs = <<>>,
                             !.called = Append(@, "LoadCertificates")]
     IN loader' = IF Len(loader.Certificates) = 0
                  THEN LoadReturn(l, <<>>, Nil)
                  ELSE [l EXCEPT !.op = "load", !.next = 1]
  /\ LoaderFrame
  /\ UNCHANGED <<stores, idents, crashed>>

\* One turn of the loop of LoadCertificates, for selector loader.next:
\* loadFromCertStore runs the store session and on success stores the
\* returned handles in the selector; the first error ends the method with a
\* nil list; an invalid certificate is cleaned up and skipped, a valid one is
\* appended with the selector's tags; after the last selector the list is
\* returned.
loadFromCertStore ==
  /\ ~crashed /\ loader.op = "load"
  /\ \E w \in Worlds(LoaderViews) :
     \E r \in {loadCertificate(loader.Certificates[loader.next], w)} :
       LET i == loader.next
           sel == loader.Certificates[i]
           n == loader.opened + 1
           cert == BindSigner(r.cert, LoaderIdentity(n, r.match))
           ss == IF r.opened
                 THEN (LoaderStore(n) :>
                         [location |-> getStoreLocation(sel.Location),
                          closes |-> IF r.storeClosed THEN 1 ELSE 0,
                                 session |-> r.closed,
                          matched |-> r.match, inserted |-> FALSE]) @@ stores
                 ELSE stores
           ii == [h \in {LoaderIdentity(n, j) : j \in 1..Len(r.enumerated)} |->
                    [kind |-> r.enumerated[h[3]],
                     closes |-> NumCloses(r.closed, h[3])]] @@ idents
           stored == [sels |-> [loader.Certificates EXCEPT
                                  ![i].store = LoaderStore(n),
                                  ![i].identity = LoaderIdentity(n, r.match)],
                      stores |-> ss, idents |-> ii, log |-> loader.log]
           cleaned == cleanup(stored, i)
           last == i = Len(loader.Certificates)
       IN CASE r.outcome = "err" ->
                 /\ loader' = LoadReturn([loader EXCEPT !.opened = n], <<>>, r.err)
                 /\ stores' = ss /\ idents' = ii
                 /\ UNCHANGED crashed
            [] r.outcome = "panic" ->
                 /\ loader' = [loader EXCEPT !.opened = n]
                 /\ stores' = ss /\ idents' = ii
                 /\ crashed' = TRUE
            [] r.outcome = "ok" /\ ~isValidCertificate(cert) ->
                 /\ LET l == [loader EXCEPT !.opened = n, !.next = i + 1,
                                            !.Certificates = cleaned.sels,
                                            !.log = cleaned.log]
                    IN loader' = IF last THEN LoadReturn(l, l.certs, Nil) ELSE l
                 /\ stores' = cleaned.stores /\ idents' = cleaned.idents
                 /\ UNCHANGED crashed
            [] OTHER ->
                 /\ LET l == [loader EXCEPT
                                !.opened = n, !.next = i + 1,
                                !.Certificates = stored.sels,
                                !.certs = Append(@, [Certificate |-> cert,
                                                     Tags |-> sel.Tags])]
                    IN loader' = IF last THEN LoadReturn(l, l.certs, Nil) ELSE l
                 /\ stores' = ss /\ idents' = ii
                 /\ UNCHANGED crashed
  /\ LoaderFrame

\* The loop of Cleanup from selector i on.
RECURSIVE CleanupLoop(_, _)
CleanupLoop(acc, i) ==
  IF i > Len(acc.sels) THEN acc ELSE CleanupLoop(cleanup(acc, i), i + 1)

\* csl.Cleanup()
CertStoreLoaderCleanup ==
  /\ ~crashed /\ loader.op = "none" /\ loader.ops < MaxLoaderOps
  /\ LET r == CleanupLoop([LoaderAcc EXCEPT !.log = <<>>], 1)
     IN /\ loader' = [loader EXCEPT !.Certificates = r.sels, !.result = Nil,
                                    !.method = "Cleanup", !.ops = @ + 1, !.log = r.log,
                                    !.called = Append(@, "Cleanup")]
        /\ stores' = r.stores
        /\ idents' = r.idents
  /\ LoaderFrame
  /\ UNCHANGED crashed

InitLoader ==
  \E cfg \in LoaderConfigs :
    InitState([p \in Procs |-> NewTransport(Nil)], NewLoader(cfg))

NextLoader ==
  \/ CertStoreLoaderProvision
  \/ LoadCertificates
  \/ loadFromCertStore
  \/ CertStoreLoaderCleanup

SpecLoader == InitLoader /\ [][NextLoader]_vars

\* ================================================================ claims
Sum(f) == LET RECURSIVE S(_)
              S(D) == IF D = {} THEN 0
                      ELSE LET x == CHOOSE y \in D : TRUE IN f[x] + S(D \ {x})
          IN S(DOMAIN f)

\* The identity handle a store handle's session matched.
MatchedOf(h) == <<h[1], h[2], stores[h].matched>>

\* C1: cache convergence.  When every successful getCachedCertificate so far
\* resolved the same leaf, N >= 1 of them have returned and no release was
\* called, the table holds exactly one entry, its count is N and all N calls
\* returned its key; once N releases of that key have returned as well (none
\* of them ahead of its resolve), the table is empty and the store and the
\* identity of every entry that was inserted were closed exactly once.
CacheConvergence ==
  LET N == Sum(loads)
  IN (cacheMutex = {} /\ N >= 1 /\ (\E c \in Certs : loads[c] = N)) =>
       /\ (\A k \in Keys : rels[k] = 0) =>
            \E k \in Keys : /\ DOMAIN certCache = {k}
                             /\ certCache[k].refCount = N
                             /\ gets[k] = N
       /\ \A k \in Keys : (gets[k] = N /\ rels[k] = N /\ prefixOK[k]) =>
            /\ DOMAIN certCache = {}
            /\ \A h \in DOMAIN stores : stores[h].inserted =>
                 stores[h].closes = 1 /\ idents[MatchedOf(h)].closes = 1

\* Both goroutines resolved CertA, one of them as a cache hit, and both
\* released it: the table is empty again.
CacheConvergenceWitness ==
  /\ loads[CertA] = NumProcs /\ Sum(loads) = NumProcs
  /\ rels[makeCacheKey(CertA)] = NumProcs /\ prefixOK[makeCacheKey(CertA)]
  /\ Cardinality({h \in DOMAIN stores : stores[h].inserted}) = 1
  /\ DOMAIN certCache = {} /\ cacheMutex = {}

\* C2: reference counting.  Whenever the lock is free, for every key whose
\* releases never ran ahead of its resolves, the entry's count is the number
\* of resolves that returned the key minus the number of releases of it, and
\* the entry is absent exactly when that difference is 0.
RefCounting ==
  cacheMutex = {} =>
    \A k \in Keys : prefixOK[k] =>
      /\ k \in DOMAIN certCache => certCache[k].refCount = gets[k] - rels[k]
      /\ k \notin DOMAIN certCache <=> gets[k] - rels[k] = 0

\* Three resolves and one release of one key: the entry is resident with
\* count 2.
RefCountingWitness ==
  \E k \in Keys :
    /\ gets[k] = 3 /\ rels[k] = 1 /\ prefixOK[k] /\ cacheMutex = {}
    /\ k \in DOMAIN certCache /\ certCache[k].refCount = 2

\* C3: after a successful Provision the first Cleanup of a transport releases
\* the stored cache key and clears it, and every further Cleanup of that
\* transport is a no-op: no step of it changes the cache table (so no
\* reference count is decremented) and none closes a native handle.
CleanupIdempotent ==
  [][\A p \in Procs :
       transports[p].provisioned =>
         /\ (transports[p].op = "cleanup" /\ transports'[p].op = "none")
              => transports'[p].ClientCert.cacheKey = Nil
         /\ (transports[p].op = "cleanup" /\ transports[p].cleaned >= 1
                /\ pc'[p] # pc[p])
              => UNCHANGED <<certCache, stores, idents>>]_vars

\* C4: releaseCachedCertificate of a key that has no entry returns normally
\* and leaves the table, every count and every native handle as they were.
ReleaseAbsentIsNoOp ==
  [][\A p \in Procs :
       (pc[p] = "rel_lock" /\ pc'[p] # "rel_lock"
          /\ loc[p].cacheKey \notin DOMAIN certCache) =>
         /\ certCache' = certCache /\ stores' = stores /\ idents' = idents
         /\ cacheMutex' = {} /\ crashed' = crashed
         /\ pc'[p] = "idle" /\ ret'[p] = RelDone(loc[p].cacheKey)]_vars

\* A key that was never resolved has been released, and a key that was
\* resolved and torn down has been released once more.
ReleaseAbsentWitness ==
  /\ \E k \in Keys : gets[k] = 0 /\ rels[k] >= 1
  /\ \E k \in Keys : gets[k] >= 1 /\ rels[k] > gets[k] /\ k \notin DOMAIN certCache

\* ------------------------------------------------------ open native pairs
\* A (store, identity) pair is a store handle with the identity its session
\* matched; F is the cache key of that identity's certificate.
PairsOf(F) ==
  {h \in DOMAIN stores :
     stores[h].matched # 0 /\ makeCacheKey(idents[MatchedOf(h)].kind.cert) = F}
OpenPairs(F) ==
  {h \in PairsOf(F) : stores[h].closes = 0 /\ idents[MatchedOf(h)].closes = 0}
HeldPairs(F) ==
  {h \in PairsOf(F) : stores[h].closes = 0 \/ idents[MatchedOf(h)].closes = 0}
\* The pair resident in the cache, and the candidates of the resolvers that
\* loaded one and have not returned yet.
Resident(F) == IF F \in DOMAIN certCache THEN {certCache[F].store} ELSE {}
CandidatePcs == {"lock", "hit_close_identity", "hit_close_store", "hit_return", "miss_insert"}
Candidates(F) ==
  {loc[p].store : p \in {q \in Procs : pc[q] \in CandidatePcs /\ loc[q].cacheKey = F}}

\* C5 as stated: at every moment at most one open (store, identity) pair
\* exists per fingerprint, the candidates of unfinished resolvers included.
AtMostOneOpenPair == \A F \in Keys : Cardinality(OpenPairs(F)) <= 1

\* C5 amended: every pair that still holds an open handle is the pair resident
\* in the cache (one per fingerprint) or the candidate of a resolver that has
\* not returned; so a fingerprint has at most one open pair plus one per
\* unfinished resolver, and at most one when no resolver is unfinished.
AtMostOneSurvivingPair ==
  \A F \in Keys :
    /\ HeldPairs(F) \subseteq Resident(F) \cup Candidates(F)
    /\ Cardinality(HeldPairs(F)) <= 1 + Cardinality(Candidates(F) \ Resident(F))
    /\ Candidates(F) = {} => Cardinality(HeldPairs(F)) <= 1

\* A resident pair and the open candidate of a concurrent resolver, both for
\* one fingerprint.
AtMostOneSurvivingPairWitness ==
  \E F \in Keys :
    /\ F \in DOMAIN certCache /\ Cardinality(OpenPairs(F)) = 2
    /\ Candidates(F) \ Resident(F) # {}

\* The positions at which a goroutine is about to make a native call.
NativeCallPcs ==
  {"load", "hit_close_identity", "hit_close_store", "rel_close_identity", "rel_close_store"}

NativeIOBeforeLock ==
  \A p \in Procs : pc[p] = "load" =>
    /\ p \notin cacheMutex
    /\ \A q \in Procs \ {p} :
         (pc[q] \in {"lock", "rel_lock"} /\ cacheMutex \ {p} = {} /\ ~crashed) =>
           ENABLED (Lock(q) \/ RelLock(q))

\* One goroutine is loading while another one holds the lock.
NativeIOBeforeLockWitness ==
  \E p \in Procs : pc[p] = "load" /\ cacheMutex # {} /\ p \notin cacheMutex

\* ------------------------------------------------------ the store session
\* The handles goroutine p's latest call opened or was handed.
SessionStores(p) == {h \in DOMAIN stores : h[1] = p /\ h[2] = calls[p]}
SessionIdentities(p) == {h \in DOMAIN idents : h[1] = p /\ h[2] = calls[p]}

\* C8 as stated: when loadCertificateWithResources has returned an error, the
\* store it opened and every identity the enumeration handed it are closed.
NoLeakOnFailure ==
  \A p \in Procs :
    (pc[p] = "idle" /\ ret[p].op = "get" /\ ~ret[p].ok) =>
      /\ \A h \in SessionStores(p) : stores[h].closes >= 1
      /\ \A h \in SessionIdentities(p) : idents[h].closes >= 1

\* C9 as stated: when the matcher has returned an identity, every other
\* enumerated identity is closed.
FirstMatchClosesOthers ==
  \A p \in Procs :
    pc[p] \in CandidatePcs =>
      \A h \in SessionIdentities(p) \ {loc[p].identity} : idents[h].closes >= 1

\* C10 as stated: a certificate with an empty chain or a nil signer is never
\* an entry of the cache table and never the result of a successful call; the
\* resolution ends in an error (not in a panic).
InvalidNeverCached ==
  /\ \A k \in DOMAIN certCache : isValidCertificate(certCache[k].cert)
  /\ \A p \in Procs : (ret[p].op = "get" /\ ret[p].ok) => isValidCertificate(ret[p].cert)
  /\ \A p \in Procs : pc[p] # "panicked"

\* ----------------------------------------------------- claims C11 to C20
\* C11: a failed resolution never mutates the cache.  No step of a
\* getCachedCertificate call up to and including its return from the load
\* (the only place it returns an error) changes the cache table, and when the
\* call has returned an error loadCertificate leaves the selector's stored
\* cacheKey as it was.
FailedResolveKeepsCache ==
  [][\A p \in Procs :
       /\ (pc'[p] # pc[p] /\ (pc[p] = "load" \/ pc'[p] = "load")) =>
            certCache' = certCache
       /\ (pc[p] = "load" /\ pc'[p] = "idle") =>
            (ret'[p].op = "get" /\ ~ret'[p].ok /\ ret'[p].key = Nil)
       /\ (transports[p].op = "provision" /\ transports'[p].op = "none" /\ ~ret[p].ok) =>
            /\ transports'[p].ClientCert.cacheKey = transports[p].ClientCert.cacheKey
            /\ certCache' = certCache]_vars

\* A transport that holds a key from an earlier Provision has had a later
\* Provision fail, while the table holds an entry.
FailedResolveKeepsCacheWitness ==
  \E p \in Procs :
    /\ transports[p].op = "none" /\ transports[p].provisioned
    /\ transports[p].result # Nil /\ transports[p].result # <<"none">>
    /\ transports[p].ClientCert.cacheKey \in DOMAIN certCache

\* The positions of the teardown in releaseCachedCertificate.
TeardownPcs == {"rel_close_identity", "rel_close_store", "rel_delete"}

\* C12: teardown at zero.  A goroutine in the teardown holds cacheMutex, the
\* entry it tears down is in the table with count 0, its identity is closed
\* before its store and both before the removal; whenever the lock is free
\* (when another goroutine can look at the table) every entry has a count
\* of at least 1 and open handles.
TeardownAtZero ==
  /\ \A p \in Procs : pc[p] \in TeardownPcs =>
       /\ cacheMutex = {p}
       /\ loc[p].cacheKey \in DOMAIN certCache
       /\ LET e == certCache[loc[p].cacheKey]
          IN /\ e.refCount = 0
             /\ idents[e.identity].closes = IF pc[p] = "rel_close_identity" THEN 0 ELSE 1
             /\ stores[e.store].closes = IF pc[p] = "rel_delete" THEN 1 ELSE 0
  /\ cacheMutex = {} =>
       \A k \in DOMAIN certCache :
         /\ certCache[k].refCount >= 1
         /\ IsOpenIdentity(certCache[k].identity) /\ IsOpenStore(certCache[k].store)

\* A teardown has closed the identity and not yet the store, while another
\* goroutine waits for the lock with the same key.
TeardownAtZeroWitness ==
  \E p \in Procs, q \in Procs :
    /\ p # q /\ pc[p] = "rel_close_store"
    /\ pc[q] \in {"lock", "rel_lock"} /\ loc[q].cacheKey = loc[p].cacheKey

\* C13: cache hit.  The hit path leaves the table alone while it closes the
\* candidate; when it returns, the entry's count has grown by exactly 1 and
\* nothing else of the table has changed, the candidate's identity and store
\* have one Close each, the resident identity and store are other handles
\* and still open, and the certificate returned is the resident one (its
\* private key works through the resident identity), not the candidate's.
CacheHit ==
  [][\A p \in Procs :
       LET k == loc[p].cacheKey
       IN /\ (pc[p] \in {"hit_close_identity", "hit_close_store"} /\ pc'[p] # pc[p]) =>
               certCache' = certCache
          /\ (pc[p] = "hit_return" /\ pc'[p] # pc[p]) =>
               /\ certCache' = [certCache EXCEPT ![k].refCount = @ + 1]
               /\ pc'[p] = "idle" /\ ret'[p] = GetOk(certCache[k].cert, k)
               /\ ret'[p].cert.PrivateKey = <<"signer", certCache[k].identity>>
               /\ ret'[p].cert # loc[p].cert
               /\ loc[p].identity # certCache[k].identity
               /\ loc[p].store # certCache[k].store
               /\ idents'[loc[p].identity].closes = 1
               /\ stores'[loc[p].store].closes = 1
               /\ idents'[certCache[k].identity].closes = 0
               /\ stores'[certCache[k].store].closes = 0]_vars

\* A call has returned from a hit on an entry another goroutine inserted:
\* the entry has count 2 and the caller's own candidate is closed.
CacheHitWitness ==
  \E p \in Procs :
    /\ pc[p] = "idle" /\ ret[p].op = "get" /\ ret[p].ok
    /\ ret[p].key \in DOMAIN certCache /\ certCache[ret[p].key].refCount = 2
    /\ certCache[ret[p].key].identity[1] # p
    /\ ret[p].cert.PrivateKey = <<"signer", certCache[ret[p].key].identity>>
    /\ stores[StoreHandle(p)].closes = 1

\* Goroutine p's last call was a getCachedCertificate that succeeded.
Resolved(p) == pc[p] = "idle" /\ ret[p].op = "get" /\ ret[p].ok

\* C14: the cache key depends only on the leaf certificate.  The key a
\* resolver computes is makeCacheKey of the leaf, whatever its selector; two
\* goroutines whose calls resolved to the same leaf got the same key, whatever
\* their selectors, and when those are the two resolves of that key and no
\* release was made, the table holds one entry for it, with count 2.
KeyDependsOnLeafOnly ==
  /\ \A p \in Procs :
       pc[p] \in CandidatePcs => loc[p].cacheKey = makeCacheKey(loc[p].cert.Leaf)
  /\ \A p \in Procs, q \in Procs :
       (p # q /\ Resolved(p) /\ Resolved(q) /\ ret[p].cert.Leaf = ret[q].cert.Leaf) =>
         LET k == ret[p].key
         IN /\ ret[q].key = k /\ k = makeCacheKey(ret[p].cert.Leaf)
            /\ (cacheMutex = {} /\ gets[k] = 2 /\ rels[k] = 0) =>
                 /\ k \in DOMAIN certCache /\ certCache[k].refCount = 2
                 /\ ret[p].cert = certCache[k].cert /\ ret[q].cert = certCache[k].cert

\* Two selectors that differ in pattern, field and location have resolved to
\* the same leaf and share the entry.
KeyDependsOnLeafOnlyWitness ==
  \E p \in Procs, q \in Procs :
    /\ p # q /\ Resolved(p) /\ Resolved(q)
    /\ loc[p].cs.Pattern # loc[q].cs.Pattern /\ loc[p].cs.Field # loc[q].cs.Field
    /\ loc[p].cs.Location # loc[q].cs.Location
    /\ ret[p].key = ret[q].key
    /\ ret[p].key \in DOMAIN certCache /\ certCache[ret[p].key].refCount = 2

\* C15: no store and no identity ever receives a second Close call, whatever
\* the interleaving of resolves and releases (releases of absent keys and
\* releases ahead of the resolves included).
ClosedAtMostOnce ==
  /\ \A h \in DOMAIN stores : stores[h].closes <= 1
  /\ \A h \in DOMAIN idents : idents[h].closes <= 1

\* An entry was torn down and its key released once more, and a build
\* failure has closed the matched identity and its store.
ClosedAtMostOnceWitness ==
  /\ \E k \in Keys : ~prefixOK[k] /\ rels[k] >= 2
  /\ \E h \in DOMAIN stores : stores[h].inserted /\ stores[h].closes = 1
  /\ \E h \in DOMAIN idents :
       /\ idents[h].kind = IdAChainErr /\ idents[h].closes = 1
       /\ stores[<<h[1], h[2]>>].closes = 1

\* Transport p has no client certificate selector, or one that stores no key.
HoldsNoKey(p) ==
  transports[p].ClientCert = Nil \/ transports[p].ClientCert.cacheKey = Nil

\* C16: release without a successful resolve.  A transport whose Provision
\* never succeeded holds no key, and Cleanup on a transport that holds no key
\* (no ClientCert, or an empty cacheKey) is over in one step that returns nil,
\* enters no releaseCachedCertificate call and leaves the cache table, the
\* lock and every native handle as they were.
CleanupWithoutKey ==
  [][\A p \in Procs :
       /\ ~transports[p].provisioned => HoldsNoKey(p)
       /\ (HoldsNoKey(p) /\ transports'[p].ops # transports[p].ops
             /\ transports'[p].method = "Cleanup") =>
            /\ UNCHANGED CacheVars
            /\ transports'[p].op = "none" /\ transports'[p].result = Nil
            /\ transports'[p].ClientCert = transports[p].ClientCert]_vars

\* A transport whose Provision failed has been cleaned up while another
\* transport's entry is in the table.
CleanupWithoutKeyWitness ==
  \E p \in Procs :
    /\ transports[p].ClientCert # Nil /\ ~transports[p].provisioned
    /\ transports[p].method = "Cleanup" /\ transports[p].ops >= 2
    /\ transports[p].op = "none" /\ DOMAIN certCache # {}

\* The successful loadCertificate calls that returned key k.
ResolvesOf(k) == Sum([p \in Procs |-> transports[p].resolves[k]])

\* With no method in progress: every successful loadCertificate was a
\* getCachedCertificate call, and for a key whose releases never ran ahead
\* the entry is resident, with its handles open and the count of the calls
\* not yet released, exactly while there are fewer releases than calls.
ResolvesCounted ==
  (cacheMutex = {} /\ \A p \in Procs : transports[p].op = "none") =>
    \A k \in Keys :
      /\ gets[k] = ResolvesOf(k)
      /\ prefixOK[k] =>
           /\ k \in DOMAIN certCache <=> rels[k] < gets[k]
           /\ k \in DOMAIN certCache =>
                /\ certCache[k].refCount = gets[k] - rels[k]
                /\ IsOpenIdentity(certCache[k].identity)
                /\ IsOpenStore(certCache[k].store)

\* C17: repeated resolve on one selector.  A loadCertificate call on a
\* selector that already stores key k goes through getCachedCertificate and
\* its return adds 1 to the count of k again; k calls and k releases of the
\* key empty the entry, fewer releases leave it resident with open handles.
RepeatedResolve ==
  [][/\ \A p \in Procs :
          (transports[p].op = "provision" /\ pc[p] \in {"hit_return", "miss_insert"}
             /\ pc'[p] # pc[p] /\ transports[p].ClientCert.cacheKey = loc[p].cacheKey) =>
            LET k == loc[p].cacheKey
            IN /\ pc'[p] = "idle" /\ ret'[p].ok /\ ret'[p].key = k
               /\ certCache'[k].refCount =
                    (IF k \in DOMAIN certCache THEN certCache[k].refCount ELSE 0) + 1
     /\ ResolvesCounted']_vars

\* One selector has resolved twice and its key was released twice: the
\* entry is gone and its store closed.
RepeatedResolveWitness ==
  \E k \in Keys :
    /\ gets[k] = 2 /\ rels[k] = 2 /\ prefixOK[k] /\ ResolvesOf(k) = 2
    /\ transports[SessionProc].op = "none" /\ DOMAIN certCache = {}
    /\ \E h \in DOMAIN stores : stores[h].inserted /\ stores[h].closes = 1

\* ------------------------------------------------------------ the matcher
\* The rule a selector states of a certificate.
Rule(cs, c) ==
  IF "Name" \in DOMAIN cs
  THEN CASE cs.Issuer # "" -> c.issuerCN = cs.Issuer
         [] cs.Issuer = "" /\ cs.pattern # NoPattern -> MatchString(cs.pattern, c.subjectCN)
         [] OTHER -> c.subjectCN = cs.Name
  ELSE MatchString(cs.pattern, getFieldSelector(cs.Field, c))

\* The matcher examines identities: every selector of the name/issuer
\* version, and one of the pattern version whose pattern is not nil.
HasRule(cs) == "Name" \in DOMAIN cs \/ cs.pattern # NoPattern

\* Goroutine p's latest getCachedCertificate call is past its load.
LoadDone(p) ==
  \/ pc[p] \in CandidatePcs \cup {"panicked"}
  \/ pc[p] = "idle" /\ ret[p].op = "get"

\* The enumeration of p's latest call succeeded.
Enumerated(p) ==
  /\ SessionStores(p) # {}
  /\ ~(pc[p] = "idle" /\ ret[p].err = <<"enumeration failed">>)

\* The positions of the enumerated identities that are readable and satisfy
\* the rule of p's selector, and the first of them (0: none).
Satisfying(p) ==
  {h[3] : h \in {g \in SessionIdentities(p) :
                   ~idents[g].kind.certErr /\ Rule(loc[p].cs, idents[g].kind.cert)}}
FirstSatisfying(p) ==
  IF Satisfying(p) = {} THEN 0
  ELSE CHOOSE i \in Satisfying(p) : \A j \in Satisfying(p) : i <= j

\* The error is the matcher's not-found error.
IsNotFound(e) ==
  /\ e # Nil
  /\ e[1] \in {"no identity found matching pattern '", "no identity found with "}

\* C18: the matcher tolerates unreadable identities.  An identity whose
\* Certificate() fails and that the loop reaches is closed exactly once and
\* the loop goes on: when a readable identity satisfies the rule, the first
\* such identity is the one returned and the call never ends in not-found.
UnreadableTolerated ==
  \A p \in Procs :
    (LoadDone(p) /\ Enumerated(p) /\ HasRule(loc[p].cs)) =>
      LET first == FirstSatisfying(p)
      IN /\ \A h \in SessionIdentities(p) :
              (idents[h].kind.certErr /\ (first = 0 \/ h[3] < first)) =>
                idents[h].closes = 1
         /\ first # 0 =>
              /\ pc[p] \in CandidatePcs => loc[p].identity = <<p, calls[p], first>>
              /\ (pc[p] = "idle" /\ ret[p].ok) =>
                   \A h \in SessionStores(p) : stores[h].matched = first
              /\ (pc[p] = "idle" /\ ~ret[p].ok) => ~IsNotFound(ret[p].err)

\* An unreadable identity was enumerated before the one that matches: it is
\* closed and the later identity is the candidate.
UnreadableToleratedWitness ==
  \E p \in Procs :
    /\ pc[p] = "miss_insert" /\ HasRule(loc[p].cs)
    /\ \E h \in SessionIdentities(p) :
         /\ idents[h].kind.certErr /\ idents[h].closes = 1
         /\ h[3] < loc[p].identity[3]

\* C19: matcher not-found.  When the matcher has a rule and no enumerated
\* identity satisfies it (none enumerated included), the call ends in the
\* matcher's not-found error, no identity is handed on, and every enumerated
\* identity has been closed exactly once.
NotFoundClosesAll ==
  \A p \in Procs :
    (LoadDone(p) /\ Enumerated(p) /\ HasRule(loc[p].cs) /\ Satisfying(p) = {}) =>
      /\ pc[p] = "idle" /\ ~ret[p].ok /\ IsNotFound(ret[p].err)
      /\ \A h \in SessionStores(p) : stores[h].matched = 0
      /\ \A h \in SessionIdentities(p) : idents[h].closes = 1

\* Not-found over an enumeration of a readable and an unreadable identity.
NotFoundClosesAllWitness ==
  \E p \in Procs :
    /\ pc[p] = "idle" /\ ret[p].op = "get" /\ IsNotFound(ret[p].err)
    /\ \E g, h \in SessionIdentities(p) :
         /\ ~idents[g].kind.certErr /\ idents[h].kind.certErr
         /\ idents[g].closes = 1 /\ idents[h].closes = 1

\* ------------------------------------------------------ ownership transfer
\* loadCertificateWithResources has just returned without error to p: the
\* store and the matched identity it returned are open.
ReturnedOpen ==
  \A p \in Procs :
    pc[p] = "lock" =>
      /\ IsOpenStore(loc[p].store) /\ IsOpenIdentity(loc[p].identity)
      /\ stores[loc[p].store].matched = loc[p].identity[3]

\* The entries of the table that hold a closed handle.
ClosedEntries ==
  {k \in DOMAIN certCache :
     ~IsOpenIdentity(certCache[k].identity) \/ ~IsOpenStore(certCache[k].store)}

\* C20 as stated: the handles loadCertificateWithResources returns are open,
\* and an entry in the table never holds a closed handle.
EntryNeverHoldsClosed == ReturnedOpen /\ ClosedEntries = {}

\* C20: ownership transfer on success.  The handles returned by a successful
\* loadCertificateWithResources are open; an entry of the table holds a
\* closed handle only while the goroutine that holds cacheMutex is tearing
\* that entry down, between its identity.Close() and its delete; whenever
\* the lock is free no entry holds a closed handle.
OwnershipTransfer ==
  /\ ReturnedOpen
  /\ \A k \in ClosedEntries :
       \E p \in cacheMutex :
         /\ pc[p] \in {"rel_close_store", "rel_delete"} /\ loc[p].cacheKey = k
         /\ certCache[k].refCount = 0

\* A resolver is back from its load with open handles while an entry that
\* another call inserted is resident with its handles open.
OwnershipTransferWitness ==
  \E p \in Procs :
    /\ pc[p] = "lock" /\ IsOpenStore(loc[p].store) /\ IsOpenIdentity(loc[p].identity)
    /\ \E k \in DOMAIN certCache :
         /\ certCache[k].store # loc[p].store
         /\ IsOpenStore(certCache[k].store) /\ IsOpenIdentity(certCache[k].identity)

\* ----------------------------------------------------- claims C21 to C30
\* The message e holds the string s (messages are kept as their pieces).
Contains(e, s) == \E i \in 1..Len(e) : e[i] = s

\* Provision on p's transport has returned an error after the store session
\* ended in the matcher's not-found.
ProvisionNotFound(p) ==
  /\ transports[p].op = "none" /\ transports[p].method = "Provision"
  /\ transports[p].result \notin {Nil, <<"none">>}
  /\ ret[p].op = "get" /\ IsNotFound(ret[p].err)

\* C21 as stated: the error Provision returns when no identity matches names
\* the store location searched and the criterion that failed to match, the
\* name when a name is configured and the issuer when an issuer is.
ProvisionErrorNamesCriterion ==
  \A p \in Procs :
    ProvisionNotFound(p) =>
      LET cc == transports[p].ClientCert
          e == transports[p].result
      IN /\ Contains(e, cc.Location)
         /\ cc.Name # "" => Contains(e, cc.Name)
         /\ cc.Issuer # "" => Contains(e, cc.Issuer)

\* The spellings of "user" among the location strings.
UserSpellings == {"user", "User", "USER", "uSeR"}

\* C22: store location mapping.  The store a session opens is the user store
\* exactly when its selector's location is a spelling of "user" in some
\* letter case, and the system store for every other string.
StoreLocationMapping ==
  \A h \in DOMAIN stores :
    stores[h].location =
      IF loc[h[1]].cs.Location \in UserSpellings THEN "User" ELSE "System"

\* A store opened for the upper-case "USER" is the user store.
StoreLocationMappingWitness ==
  \E h \in DOMAIN stores :
    loc[h[1]].cs.Location = "USER" /\ stores[h].location = "User"

\* The characters the detection looks for.
Metacharacters == {"*", "+", "?", "^", "$", "(", ")", "[", "]", "{", "}", "|", "\\"}

\* Provision took the name of p's selector for a regular expression: it
\* compiled it, or returned the error of the compilation.
TreatedAsRegex(p) ==
  \/ transports[p].ClientCert.pattern # NoPattern
  \/ /\ transports[p].op = "none" /\ transports[p].result # Nil
     /\ transports[p].result[1] = "invalid regex pattern '"

\* The configuration of p's transport passes Provision's validation.
ValidConfig(p) ==
  /\ transports[p].ClientCert # Nil
  /\ (transports[p].ClientCert.Name # "") # (transports[p].ClientCert.Issuer # "")

\* C23: regex detection.  Provision treats the configured name as a regular
\* expression exactly when it holds one of * + ? ^ $ ( ) [ ] { } | \; a
\* name with dots and none of these stays a literal, a name with a dot and one
\* of these is a regular expression.
RegexDetection ==
  \A p \in Procs :
    (transports[p].method = "Provision" /\ ValidConfig(p)) =>
      LET cs == Chars(transports[p].ClientCert.Name)
      IN TreatedAsRegex(p) <=> \E i \in 1..Len(cs) : cs[i] \in Metacharacters

\* Provision has compiled the name test\.com (a dot and a backslash) and is
\* resolving, while a plain FQDN would have been left a literal.
RegexDetectionWitness ==
  \E p \in Procs :
    /\ transports[p].method = "Provision" /\ ValidConfig(p)
    /\ transports[p].ClientCert.Name = "test\\.com"
    /\ transports[p].ClientCert.pattern = Compile("test\\.com")

\* Goroutine p calls Provision in this step.
ProvisionCalled(p) ==
  transports'[p].ops = transports[p].ops + 1 /\ transports'[p].method = "Provision"

\* Provision returns in this step, either at once or after loadCertificate.
ProvisionReturned(p) ==
  /\ transports'[p].op = "none"
  /\ ProvisionCalled(p) \/ transports[p].op = "provision"

\* What a step of goroutine p shows of Provision's outcomes, the private key
\* of the installed certificate left aside.  Without a ClientCert it
\* returns nil, installs nothing and leaves the cache alone; with neither or
\* both of name and issuer it fails with no store opened and the cache
\* unchanged; when the resolution fails it fails, the cache is unchanged and
\* a selector that held no key holds none; on success one certificate with a
\* leaf is installed, the key is stored, and the count of the entry went up
\* by 1 when getCachedCertificate returned.
ProvisionOutcome(p) ==
  LET cc == transports[p].ClientCert
  IN /\ (ProvisionCalled(p) /\ cc = Nil) =>
          /\ transports'[p].result = Nil /\ transports'[p].Certificates = <<>>
          /\ UNCHANGED CacheVars
     /\ (ProvisionCalled(p) /\ cc # Nil /\ ~ValidConfig(p)) =>
          /\ transports'[p].op = "none" /\ transports'[p].result # Nil
          /\ UNCHANGED CacheVars
     /\ (transports[p].op = "provision" /\ pc[p] = "load" /\ pc'[p] = "idle") =>
          /\ ~ret'[p].ok
          /\ UNCHANGED <<certCache, cacheMutex, gets, rels>>
     /\ (ProvisionReturned(p) /\ transports[p].op = "provision" /\ ~ret[p].ok) =>
          /\ transports'[p].result # Nil
          /\ transports'[p].ClientCert.cacheKey = cc.cacheKey
          /\ ~transports[p].provisioned => transports'[p].ClientCert.cacheKey = Nil
          /\ UNCHANGED CacheVars
     /\ (transports[p].op = "provision" /\ pc[p] \in {"hit_return", "miss_insert"}
           /\ pc'[p] = "idle") =>
          LET k == loc[p].cacheKey
          IN certCache'[k].refCount =
               (IF k \in DOMAIN certCache THEN certCache[k].refCount ELSE 0) + 1
     /\ (ProvisionReturned(p) /\ transports[p].op = "provision" /\ ret[p].ok) =>
          /\ transports'[p].result = Nil
          /\ Len(transports'[p].Certificates) = 1
          /\ transports'[p].Certificates[1].Leaf # Nil
          /\ transports'[p].ClientCert.cacheKey = ret[p].key
          /\ UNCHANGED CacheVars

\* The outcomes above hold of every step (the part of C24 that does not
\* depend on the validity of the certificate).
ProvisionOutcomesButKey == [][\A p \in Procs : ProvisionOutcome(p)]_vars

\* C24 as stated: the outcomes of Provision, and on success the installed
\* certificate has a non-nil leaf and a non-nil private key.
ProvisionOutcomes ==
  [][\A p \in Procs :
       /\ ProvisionOutcome(p)
       /\ (ProvisionReturned(p) /\ transports[p].op = "provision" /\ ret[p].ok) =>
            transports'[p].Certificates[1].PrivateKey # Nil]_vars

\* --------------------------------------------------------- CertStoreLoader
\* This step is a call of csl.Cleanup().
LoaderCleanupStep == loader'.ops = loader.ops + 1 /\ loader'.method = "Cleanup"

\* The handles the loader's selectors hold.
HeldIdentities == {loader.Certificates[i].identity : i \in DOMAIN loader.Certificates} \ {Nil}
HeldStores == {loader.Certificates[i].store : i \in DOMAIN loader.Certificates} \ {Nil}

\* The position of Close event e in the log l (0: not there).
LogIndex(l, e) == IF \E j \in 1..Len(l) : l[j] = e
                  THEN CHOOSE j \in 1..Len(l) : l[j] = e ELSE 0

\* C25: cleanup of the loader.  Cleanup returns nil; it closes exactly the
\* identities and stores its selectors hold, each once, a selector's identity
\* before its store, and leaves every selector without handles; with no
\* handle held (nothing was ever loaded, or a Cleanup came before) it makes
\* no Close call.
LoaderCleanupIdempotent ==
  [][LoaderCleanupStep =>
       /\ loader'.result = Nil
       /\ Len(loader'.Certificates) = Len(loader.Certificates)
       /\ \A i \in DOMAIN loader.Certificates :
            /\ loader'.Certificates[i].store = Nil
            /\ loader'.Certificates[i].identity = Nil
            /\ LET sel == loader.Certificates[i]
               IN (sel.identity # Nil /\ sel.store # Nil) =>
                    /\ LogIndex(loader'.log, <<"identity", sel.identity>>) > 0
                    /\ LogIndex(loader'.log, <<"identity", sel.identity>>)
                         < LogIndex(loader'.log, <<"store", sel.store>>)
       /\ Len(loader'.log) = Cardinality(HeldIdentities) + Cardinality(HeldStores)
       /\ DOMAIN idents' = DOMAIN idents /\ DOMAIN stores' = DOMAIN stores
       /\ \A h \in DOMAIN idents :
            idents'[h].closes = idents[h].closes + (IF h \in HeldIdentities THEN 1 ELSE 0)
       /\ \A h \in DOMAIN stores :
            stores'[h].closes = stores[h].closes + (IF h \in HeldStores THEN 1 ELSE 0)
       /\ (HeldIdentities = {} /\ HeldStores = {}) =>
            /\ loader'.log = <<>>
            /\ UNCHANGED <<stores, idents>>]_vars

\* LoadCertificates loaded a valid certificate, a first Cleanup closed its
\* identity and store, and a second Cleanup has closed nothing.
LoaderCleanupIdempotentWitness ==
  /\ loader.method = "Cleanup" /\ loader.ops = 3 /\ loader.log = <<>>
  /\ \E h \in DOMAIN idents :
       /\ h[1] = 0 /\ idents[h].kind.signer = "ok" /\ idents[h].closes = 1
       /\ stores[<<0, h[2]>>].matched = h[3] /\ stores[<<0, h[2]>>].closes = 1

\* This step is a call of csl.Provision(ctx).
LoaderProvisionStep == loader'.ops = loader.ops + 1 /\ loader'.method = "Provision"

\* The first selector of sels with neither name nor issuer (0: there is none).
FirstInvalid(sels) ==
  IF \E i \in 1..Len(sels) : sels[i].Name = "" /\ sels[i].Issuer = ""
  THEN CHOOSE i \in 1..Len(sels) :
         /\ sels[i].Name = "" /\ sels[i].Issuer = ""
         /\ \A j \in 1..(i - 1) : ~(sels[j].Name = "" /\ sels[j].Issuer = "")
  ELSE 0

\* C26: Provision of the loader.  With a selector that has neither name nor
\* issuer, Provision returns an error containing "must have either 'name' or
\* 'issuer' set" that names the first such selector, and the selectors from
\* that one on are as they were; otherwise it returns nil, the loader has as
\* many selectors as before, and selector i has as many tags as before, tag k
\* being the old tag k with its placeholders replaced.
LoaderProvisionValidates ==
  [][LoaderProvisionStep =>
       LET sels == loader.Certificates
           i0 == FirstInvalid(sels)
       IN /\ Len(loader'.Certificates) = Len(sels)
          /\ IF i0 # 0
             THEN /\ loader'.result # Nil
                  /\ Contains(loader'.result, " must have either 'name' or 'issuer' set")
                  /\ Contains(loader'.result, SerialString(i0 - 1))
                  /\ \A i \in i0..Len(sels) : loader'.Certificates[i] = sels[i]
             ELSE /\ loader'.result = Nil
                  /\ \A i \in 1..Len(sels) :
                       /\ loader'.Certificates[i].Name = ReplaceKnown(sels[i].Name)
                       /\ loader'.Certificates[i].Issuer = ReplaceKnown(sels[i].Issuer)
                       /\ Len(loader'.Certificates[i].Tags) = Len(sels[i].Tags)
                       /\ \A k \in 1..Len(sels[i].Tags) :
                            loader'.Certificates[i].Tags[k] = ReplaceKnown(sels[i].Tags[k])]_vars

\* Provision has succeeded on two selectors with two tags each, a placeholder
\* among the tags of the first.
LoaderProvisionValidatesWitness ==
  /\ loader.method = "Provision" /\ loader.result = Nil
  /\ Len(loader.Certificates) = 2
  /\ loader.Certificates[1].Tags = <<"production", "test">>
  /\ loader.Certificates[2].Tags = <<"b", "a">>

\* ------------------------------------------------------ holders and handles
\* The native identity a certificate's private key works through, and the
\* store that identity came from.
BackingIdentity(cert) == cert.PrivateKey[2]
BackingStore(cert) == <<cert.PrivateKey[2][1], cert.PrivateKey[2][2]>>

\* Every caller has released only what it held.
CorrectPairing == \A q \in Procs : paired[q]

\* C27: no use after close under correct pairing.  While every caller has
\* released only keys it held, a certificate that getCachedCertificate
\* returned to a caller who has not yet released it is backed by the identity
\* and store of the entry resident under its key, and both are open.
NoUseAfterClose ==
  CorrectPairing =>
    \A p \in Procs : \A i \in 1..Len(held[p]) :
      LET c == held[p][i]
          k == makeCacheKey(c.Leaf)
      IN c.PrivateKey # Nil =>
           /\ k \in DOMAIN certCache
           /\ certCache[k].identity = BackingIdentity(c)
           /\ certCache[k].store = BackingStore(c)
           /\ IsOpenIdentity(BackingIdentity(c))
           /\ IsOpenStore(BackingStore(c))

\* A caller holds a certificate it got on a cache hit: the certificate is
\* backed by another caller's identity, the caller's own candidate is closed,
\* and the caller that inserted the entry has released it.
NoUseAfterCloseWitness ==
  /\ CorrectPairing
  /\ \E p \in Procs : \E q \in Procs \ {p} :
       /\ Len(held[p]) = 1 /\ held[p][1].PrivateKey # Nil
       /\ BackingIdentity(held[p][1])[1] = q
       /\ ret[p].op = "get" /\ ret[p].ok /\ pc[p] = "idle"
       /\ \E h \in DOMAIN idents : h[1] = p /\ idents[h].closes = 1
       /\ ret[q].op = "release" /\ ret[q].key = ret[p].key /\ pc[q] = "idle"
       /\ IsOpenIdentity(BackingIdentity(held[p][1]))

\* ------------------------------------------------- transports sharing a key
\* Transport p provisioned successfully and no Cleanup of it has been called
\* since.
InUse(p) ==
  /\ transports[p].provisioned /\ transports[p].cleaned = 0
  /\ transports[p].op # "cleanup"
  /\ Len(transports[p].Certificates) = 1
  /\ transports[p].Certificates[1].PrivateKey # Nil

\* The handles behind the certificate installed in transport p are open.
InstalledOpen(p) ==
  /\ IsOpenIdentity(BackingIdentity(transports[p].Certificates[1]))
  /\ IsOpenStore(BackingStore(transports[p].Certificates[1]))

\* No transport has had more Cleanup calls than successful Provision calls
\* (a Cleanup in progress counted).
CleanupsPaired ==
  \A q \in Procs :
    /\ paired[q]
    /\ transports[q].provisioned => transports[q].cleaned <= 1

\* C28: transports sharing a certificate.  Whatever Provision and Cleanup
\* calls are made on the transports, a second Cleanup of one transport
\* included, the handles behind the certificate installed in a transport that
\* provisioned successfully and has not been cleaned up are open.
SharedHandlesStayOpen == \A p \in Procs : InUse(p) => InstalledOpen(p)

\* The same for the runs in which no transport is cleaned up more often than
\* it was provisioned.
SharedHandlesStayOpenPaired ==
  CleanupsPaired => \A p \in Procs : InUse(p) => InstalledOpen(p)

\* -------------------------------------------- resolve against last release
\* This step is p's getCachedCertificate returning from the hit path, or from
\* the miss path.
HitReturns(p) == pc[p] = "hit_return" /\ pc'[p] = "idle"
MissReturns(p) == pc[p] = "miss_insert" /\ pc'[p] = "idle"

\* This step is p's getCachedCertificate taking the lock and looking its key
\* up.
Lookup(p) == pc[p] = "lock" /\ pc'[p] \in {"hit_close_identity", "miss_insert"}

\* C29: a resolve against the last release.  Whatever releases run
\* concurrently, a getCachedCertificate that finds an entry under its key
\* finds it with a count of at least 1 and open handles, increments it and
\* returns its certificate, the handles still open; one that finds none
\* inserts an entry with count 1 holding the open handles it loaded itself
\* and returns the certificate built from them.
ResolveRacesRelease ==
  [][\A p \in Procs :
       LET k == loc[p].cacheKey
       IN /\ Lookup(p) =>
               IF k \in DOMAIN certCache
               THEN /\ pc'[p] = "hit_close_identity"
                    /\ certCache[k].refCount >= 1
                    /\ IsOpenIdentity(certCache[k].identity)
                    /\ IsOpenStore(certCache[k].store)
               ELSE pc'[p] = "miss_insert"
          /\ HitReturns(p) =>
               /\ k \in DOMAIN certCache /\ k \in DOMAIN certCache'
               /\ certCache'[k].refCount = certCache[k].refCount + 1
               /\ certCache[k].refCount >= 1
               /\ certCache'[k].identity = certCache[k].identity
               /\ certCache'[k].store = certCache[k].store
               /\ idents'[certCache'[k].identity].closes = 0
               /\ stores'[certCache'[k].store].closes = 0
               /\ ret'[p].ok /\ ret'[p].cert = certCache'[k].cert
               /\ BackingIdentity(ret'[p].cert) = certCache'[k].identity
          /\ MissReturns(p) =>
               /\ k \notin DOMAIN certCache /\ k \in DOMAIN certCache'
               /\ certCache'[k].refCount = 1
               /\ certCache'[k].identity = loc[p].identity
               /\ certCache'[k].store = loc[p].store
               /\ idents'[loc[p].identity].closes = 0
               /\ stores'[loc[p].store].closes = 0
               /\ ret'[p].ok /\ ret'[p].cert = certCache'[k].cert
               /\ BackingIdentity(ret'[p].cert) = loc[p].identity]_vars

\* The resolver won the race: a release of the key was called while the
\* count was 1 and has not taken the lock yet, and the resolver has returned
\* from the hit path, the count now 2 and the entry's handles open.
ResolveRacesReleaseWitness ==
  \E p \in Procs : \E q \in Procs \ {p} :
    /\ pc[q] = "rel_lock" /\ pc[p] = "idle" /\ cacheMutex = {}
    /\ ret[p].op = "get" /\ ret[p].ok /\ ret[p].key = loc[q].cacheKey
    /\ ret[p].key \in DOMAIN certCache
    /\ certCache[ret[p].key].refCount = 2
    /\ BackingIdentity(ret[p].cert)[1] = q
    /\ IsOpenIdentity(certCache[ret[p].key].identity)

\* ------------------------------------------------------ the table at rest
\* The stores that were inserted into the table and are still open.
LiveInserted == {h \in DOMAIN stores : stores[h].inserted /\ stores[h].closes = 0}

\* C30: the table while nobody holds the lock.  Every entry has a count of
\* at least 1 and a cacheKey field equal to the key it is stored under; no
\* key is the cacheKey of two entries; and the entries are exactly the
\* inserted stores that are still open, one entry each.
TableAtRest ==
  cacheMutex = {} =>
    /\ \A k \in DOMAIN certCache :
         /\ certCache[k].refCount >= 1
         /\ certCache[k].cacheKey = k
         /\ certCache[k].store \in LiveInserted
    /\ \A k \in Keys :
         Cardinality({x \in DOMAIN certCache : certCache[x].cacheKey = k}) <= 1
    /\ \A h \in LiveInserted :
         Cardinality({k \in DOMAIN certCache : certCache[k].store = h}) = 1

\* The lock is free and the table holds two entries, one with count 2 and
\* one with count 1.
TableAtRestWitness ==
  /\ cacheMutex = {}
  /\ \E k1 \in DOMAIN certCache : \E k2 \in DOMAIN certCache \ {k1} :
       certCache[k1].refCount = 2 /\ certCache[k2].refCount = 1

\* ------------------------------------------- claims C31 to C37
\* The fingerprint p's call is about: the key of the release it is in, or
\* the key its resolution computed (Nil before the resolution).
KeyOfCall(p) == IF loc[p].cacheKey # Nil THEN loc[p].cacheKey ELSE loc'[p].cacheKey

\* C31: independence of fingerprints.  A step of a getCachedCertificate or
\* releaseCachedCertificate call for fingerprint F leaves every other key G
\* as it was: absent if it was absent, and otherwise the same entry with the
\* same count, its identity and store handles untouched.
FingerprintsIndependent ==
  [][\A p \in Procs : pc'[p] # pc[p] =>
       \A G \in Keys : G # KeyOfCall(p) =>
         IF G \in DOMAIN certCache
         THEN /\ G \in DOMAIN certCache'
              /\ certCache'[G] = certCache[G]
              /\ idents'[certCache[G].identity] = idents[certCache[G].identity]
              /\ stores'[certCache[G].store] = stores[certCache[G].store]
         ELSE G \notin DOMAIN certCache']_vars

\* A release tore the entry of one fingerprint down while the entry of
\* another stayed in the table with its handles open.
FingerprintsIndependentWitness ==
  \E p \in Procs : \E G \in DOMAIN certCache :
    /\ pc[p] = "idle" /\ ret[p].op = "release" /\ ret[p].key # G
    /\ gets[ret[p].key] >= 1 /\ ret[p].key \notin DOMAIN certCache
    /\ IsOpenIdentity(certCache[G].identity) /\ IsOpenStore(certCache[G].store)

\* C32: progress.  A goroutine that is back from its call does not hold the
\* lock, and every call of getCachedCertificate or releaseCachedCertificate
\* that was started returns.
CallsReturn ==
  /\ [](\A p \in Procs : pc[p] = "idle" => p \notin cacheMutex)
  /\ \A p \in Procs : (pc[p] # "idle") ~> (pc[p] = "idle")

\* Every goroutine has made all its calls and is back, the lock is free, and
\* among the calls were a miss, a hit and a release that tore the entry down.
CallsReturnWitness ==
  /\ \A p \in Procs : pc[p] = "idle" /\ calls[p] = MaxCalls
  /\ cacheMutex = {}
  /\ \E k \in Keys : gets[k] = 2 /\ rels[k] = 2 /\ k \notin DOMAIN certCache

\* --------------------------------------------- the name/issuer matcher
\* The selector of p's call is one of the name/issuer version.
NameVersion(p) == "Name" \in DOMAIN loc[p].cs

\* The rule in force for a name/issuer selector: the issuer when one is
\* given, else the compiled pattern when there is one, else the name.
IssuerRule(cs) == cs.Issuer # ""
PatternRule(cs) == cs.Issuer = "" /\ cs.pattern # NoPattern
InForce(cs, c) ==
  IF IssuerRule(cs) THEN c.issuerCN = cs.Issuer
  ELSE IF PatternRule(cs) THEN MatchString(cs.pattern, c.subjectCN)
  ELSE c.subjectCN = cs.Name

\* The first enumerated identity of p's call that is readable and satisfies
\* the rule in force (0: none).
InForceSet(p) ==
  {h[3] : h \in {g \in SessionIdentities(p) :
                   ~idents[g].kind.certErr /\ InForce(loc[p].cs, idents[g].kind.cert)}}
FirstInForce(p) ==
  IF InForceSet(p) = {} THEN 0
  ELSE CHOOSE i \in InForceSet(p) : \A j \in InForceSet(p) : i <= j

DecimalSerial(c) == IF c = CertA THEN "1001" ELSE "2002"
FieldText(field, c) ==
  IF field = "issuer" THEN c.issuerCN
  ELSE IF field = "serial" THEN DecimalSerial(c)
  ELSE IF field = "dns_names" THEN (IF c.dns = <<>> THEN "" ELSE Head(c.dns))
  ELSE c.subjectCN

\* The first enumerated identity of p's call that is readable and whose
\* field text the selector's pattern matches (0: none).
FieldMatchSet(p) ==
  {h[3] : h \in {g \in SessionIdentities(p) :
                   /\ ~idents[g].kind.certErr
                   /\ MatchString(loc[p].cs.pattern,
                                  FieldText(loc[p].cs.Field, idents[g].kind.cert))}}
FirstFieldMatch(p) ==
  IF FieldMatchSet(p) = {} THEN 0
  ELSE CHOOSE i \in FieldMatchSet(p) : \A j \in FieldMatchSet(p) : i <= j

\* C34: field selection.  With a compiled pattern, the matcher of the
\* pattern/field version stops at the first readable identity whose field
\* text the pattern matches, and ends in not-found, naming the field, when
\* there is none.
FieldSelection ==
  \A p \in Procs :
    (LoadDone(p) /\ Enumerated(p) /\ ~NameVersion(p) /\ loc[p].cs.pattern # NoPattern) =>
      LET first == FirstFieldMatch(p)
      IN IF first = 0
         THEN /\ pc[p] = "idle" /\ ~ret[p].ok
              /\ ret[p].err =
                   <<"no identity found matching pattern '", loc[p].cs.Pattern,
                     "' in field '", loc[p].cs.Field, "'",
                     " in ", loc[p].cs.Location, " store">>
         ELSE /\ pc[p] \in CandidatePcs => loc[p].identity = <<p, calls[p], first>>
              /\ (pc[p] = "idle" /\ ret[p].ok) =>
                   \A h \in SessionStores(p) : stores[h].matched = first
              /\ (pc[p] = "idle" /\ ~ret[p].ok) => ~IsNotFound(ret[p].err)

\* Field "dns_names" with a pattern that matches only the second SAN of an
\* enumerated certificate: not found.
FieldSelectionWitness ==
  \E p \in Procs :
    /\ pc[p] = "idle" /\ ret[p].op = "get" /\ ~ret[p].ok /\ IsNotFound(ret[p].err)
    /\ ~NameVersion(p) /\ loc[p].cs.Field = "dns_names"
    /\ \E h \in SessionIdentities(p) :
         /\ ~idents[h].kind.certErr /\ Len(idents[h].kind.cert.dns) >= 2
         /\ MatchString(loc[p].cs.pattern, idents[h].kind.cert.dns[2])

\* ------------------------------------------------------ the nil pattern
\* p's call was made on a selector of the pattern/field version whose
\* pattern was never compiled, and its enumeration succeeded.
NilPatternCall(p) ==
  LoadDone(p) /\ Enumerated(p) /\ ~NameVersion(p) /\ loc[p].cs.pattern = NoPattern

\* With a nil pattern the call ends in the error "pattern is required",
\* wrapped with the store location, and the store is closed.
NilPatternReturnsError ==
  \A p \in Procs :
    NilPatternCall(p) =>
      /\ pc[p] = "idle" /\ ~ret[p].ok
      /\ ret[p].err = <<"pattern is required", " in ", loc[p].cs.Location, " store">>
      /\ \A h \in SessionStores(p) : stores[h].closes = 1

\* C35: the nil pattern.  With a nil pattern the call ends in the error
\* "pattern is required" and every enumerated identity has been closed by
\* the time the error is returned.
NilPatternClosesAll ==
  \A p \in Procs :
    NilPatternCall(p) =>
      /\ pc[p] = "idle" /\ ~ret[p].ok
      /\ Contains(ret[p].err, "pattern is required")
      /\ \A h \in SessionIdentities(p) : idents[h].closes = 1

\* ---------------------------------------------------------- the builder
\* The identity the matcher of p's call handed to the builder.
Built(p) == idents[<<p, calls[p], FirstSatisfying(p)>>]

\* What the builder answers for an identity of kind k: the chain is asked
\* first, then the signer.
ChainFails(k) == k.chain = "err"
SignerFails(k) == k.chain # "err" /\ k.signer = "err"
BuilderSucceeds(k) == k.chain = "ok" /\ k.signer # "err"

\* The last two Close calls of a store session.
LastTwo(session) ==
  IF Len(session) < 2 THEN <<>> ELSE <<session[Len(session) - 1], session[Len(session)]>>

\* C36: the builder and its identity.  When the builder fails on the chain
\* or on the signer, the call returns the builder's error as it is, and the
\* matched identity and then the store have been closed, once each; when the
\* builder succeeds, neither has been closed when it returns.
BuilderLeavesIdentity ==
  \A p \in Procs :
    (LoadDone(p) /\ Enumerated(p) /\ HasRule(loc[p].cs) /\ FirstSatisfying(p) # 0) =>
      LET first == FirstSatisfying(p)
          k == Built(p).kind
      IN /\ (ChainFails(k) \/ SignerFails(k)) =>
              /\ pc[p] = "idle" /\ ~ret[p].ok
              /\ ret[p].err = IF ChainFails(k) THEN <<"chain unavailable">>
                              ELSE <<"signer unavailable">>
              /\ Built(p).closes = 1
              /\ \A h \in SessionStores(p) :
                   /\ stores[h].closes = 1
                   /\ LastTwo(stores[h].session) = <<first, 0>>
                   /\ NumCloses(stores[h].session, first) = 1
                   /\ NumCloses(stores[h].session, 0) = 1
         /\ (BuilderSucceeds(k) /\ pc[p] = "lock") =>
              /\ Built(p).closes = 0
              /\ \A h \in SessionStores(p) :
                   /\ stores[h].closes = 0
                   /\ NumCloses(stores[h].session, first) = 0
                   /\ NumCloses(stores[h].session, 0) = 0

\* The matcher closed an identity that did not match and handed on one whose
\* signer then failed: the call has returned the signer's error with the
\* matched identity and the store closed once each.
BuilderLeavesIdentityWitness ==
  \E p \in Procs :
    /\ pc[p] = "idle" /\ ret[p].op = "get" /\ ret[p].err = <<"signer unavailable">>
    /\ HasRule(loc[p].cs) /\ FirstSatisfying(p) = 2
    /\ Built(p).closes = 1
    /\ \E h \in SessionStores(p) : stores[h].session = <<1, 2, 0>>

\* ------------------------------------------------- the loader's handles
\* The selectors that hold a store, in order.
Loaded(sels) == SelectSeq(sels, LAMBDA sel : sel.store # Nil)

\* LoadCertificates: when it returns an error the list is nil; when it
\* returns a list, the list has one certificate per selector whose
\* certificate was valid, in selector order, each valid, built from the
\* identity the selector holds and carrying the selector's tags; and the loop
\* goes on to the next selector only after a load that succeeded.
LoadCertificatesReturns ==
  [][(loader.op = "load" /\ loader' # loader) =>
       /\ (loader'.op = "load" /\ ~crashed') =>
            /\ LoaderStore(loader'.opened) \in DOMAIN stores'
            /\ stores'[LoaderStore(loader'.opened)].matched # 0
       /\ (loader'.op = "none" /\ loader'.result # Nil) => loader'.certs = <<>>
       /\ (loader'.op = "none" /\ loader'.result = Nil) =>
            LET valid == Loaded(loader'.Certificates)
            IN /\ Len(loader'.certs) = Len(valid)
               /\ \A k \in 1..Len(valid) :
                    /\ loader'.certs[k].Tags = valid[k].Tags
                    /\ isValidCertificate(loader'.certs[k].Certificate)
                    /\ BackingIdentity(loader'.certs[k].Certificate) = valid[k].identity]_vars

\* The loader's methods so far were LoadCertificates calls and then one
\* Cleanup, which has returned.
LoadsThenCleanup ==
  /\ loader.op = "none" /\ Len(loader.called) >= 2
  /\ loader.called[Len(loader.called)] = "Cleanup"
  /\ \A j \in 1..(Len(loader.called) - 1) : loader.called[j] = "LoadCertificates"

\* The native handles the loader's store sessions opened.
LoaderStores == {h \in DOMAIN stores : h[1] = 0}
LoaderIdentities == {h \in DOMAIN idents : h[1] = 0}

\* After LoadCertificates calls and a Cleanup, every store the loader opened
\* is closed.
LoaderClosesStores ==
  LoadsThenCleanup => \A h \in LoaderStores : stores[h].closes >= 1

\* C37: the loader's resources.  After any sequence of LoadCertificates
\* calls followed by Cleanup, every store and every identity those calls
\* opened has been closed.
LoaderClosesAll ==
  LoadsThenCleanup =>
    /\ \A h \in LoaderStores : stores[h].closes >= 1
    /\ \A h \in LoaderIdentities : idents[h].closes >= 1
====
